---- MODULE Spec2Model ----
(***************************************************************************)
(* Model of the xEntity runtime (MIGRAT/xentity): the internal aEntity     *)
(* (model.py), its metadata, the lifecycle state machine, the field        *)
(* mutations, snapshots, and the xEntity facade (facade.py) with the       *)
(* accessors synthesized by the metaclasses (metaclass.py), and the        *)
(* entity cache xEntityCache (facade.py).                                  *)
(*                                                                         *)
(* External collaborators (xData, xSchema) are modelled at their           *)
(* interface: xData is a map from paths to values, xSchema a pass/fail     *)
(* predicate whose constructor either accepts the keywords type and        *)
(* description or raises.  datetime.now() reads a clock that never runs    *)
(* backwards.                                                              *)
(***************************************************************************)
EXTENDS Integers, Sequences, FiniteSets, TLC

VARIABLES
    ents,      \* the live entities: facade + internal aEntity, by creation order
    hist,      \* per entity, the lifecycle states it went through (history)
    clock,     \* what datetime.now() returns
    nextId,    \* the next uuid4 value that an entity keeps as its id (it
               \* also names the list and dict objects made with it)
    last,      \* the last call made: operation, entity, arguments, outcome
    entity_cache,  \* the xEntityCache instance behind get_entity_cache()
    touched,   \* the keys that put and get have marked as used, oldest first
               \* (history)
    config_manager,  \* the xEntityConfigManager singleton: mode and counter
    klass,     \* the class that the last class statement has synthesized
    xEntityClass,  \* the class xEntity as executing facade.py left it
    converts,  \* whether _convert_property_to_xschema gets a schema from
               \* xSchema(type=..., description=...) for a @property member
               \* (TRUE) or the constructor raises and it returns None
    objs,      \* the instances of classes written without the xEntity base
    args,      \* the arguments of the last call that are not in last
    threads,   \* per thread, the call it is in: its position and its locals
    lock,      \* the owner of the RLock of the entity cache, 0 when free
    completed, \* the number of calls that threads have completed (history)
    serial,    \* the cache that the completed calls give when each is
               \* applied whole, in the order of completion (history)
    entity_cache_instance,  \* the module global _entity_cache_instance:
               \* the cache object it refers to, 0 for None
    created,   \* the number of xEntityCache objects constructed so far
    displaced  \* the xEntityCache objects that _entity_cache_instance
               \* referred to before a later assignment replaced them:
               \* per object its contents and the owner of its RLock

vars == <<ents, hist, clock, nextId, last, entity_cache, touched,
          config_manager, klass, xEntityClass, converts, objs, args,
          threads, lock, completed, serial, entity_cache_instance, created,
          displaced>>

cacheVars == <<entity_cache, touched>>

classVars == <<config_manager, klass, xEntityClass, converts, objs>>

threadVars == <<threads, lock, completed, serial>>

threadVarsButThreads == <<lock, completed, serial>>

bindingVars == <<entity_cache_instance, created>>

singletonVars == <<entity_cache_instance, created, displaced>>

----------------------------------------------------------------------------
\* Bounds of the model

MaxEnts    == 2    \* entities alive at once
MaxVersion == 5    \* no operation is started that would take version beyond it
MaxClock   == 2    \* the clock stops advancing here
MaxIds     == 2    \* the last uuid4 value handed out
MaxUpd     == 2    \* pairs in one update(mapping)
MaxTags    == 1    \* tags of one entity
MaxSize    == 2    \* the largest max_size a cache is made with, the default aside
MaxCacheOps == 5   \* put and get calls on the cache
MaxDecls   == 2    \* action declarations in one class body
MaxThreads == 2    \* threads that call concurrently
MaxCalls   == 3    \* calls that the threads make on the cache, together

----------------------------------------------------------------------------
\* Lifecycle states (xEntityState) and the transition table

DRAFT     == "draft"
VALIDATED == "validated"
COMMITTED == "committed"
ARCHIVED  == "archived"

States == {DRAFT, VALIDATED, COMMITTED, ARCHIVED}

\* a target that is none of the four states
BogusState == "deleted"

Targets == States \cup {BogusState}

StateTransitionsBroken ==
    [s \in States |->
        CASE s = DRAFT     -> {VALIDATED, ARCHIVED}
          [] s = VALIDATED -> {COMMITTED, DRAFT, ARCHIVED}
          [] s = COMMITTED -> {ARCHIVED, DRAFT}
          [] s = ARCHIVED  -> {DRAFT}]

StateTransitionsNoRestore ==
    [s \in States |->
        CASE s = DRAFT     -> {VALIDATED, ARCHIVED}
          [] s = VALIDATED -> {COMMITTED, DRAFT, ARCHIVED}
          [] s = COMMITTED -> {ARCHIVED}
          [] s = ARCHIVED  -> {}]

state_transitions ==
    [s \in States |->
        CASE s = DRAFT     -> {VALIDATED, ARCHIVED}
          [] s = VALIDATED -> {COMMITTED, DRAFT, ARCHIVED}
          [] s = COMMITTED -> {ARCHIVED}
          [] s = ARCHIVED  -> {DRAFT}]

\* the edges of the table of spec section 4.2, written out
Edges ==
    { <<DRAFT, VALIDATED>>, <<DRAFT, ARCHIVED>>,
      <<VALIDATED, COMMITTED>>, <<VALIDATED, DRAFT>>, <<VALIDATED, ARCHIVED>>,
      <<COMMITTED, ARCHIVED>>, <<ARCHIVED, DRAFT>> }

----------------------------------------------------------------------------
\* Field data (xData) and the schema evaluator (xSchema), at their interface

Paths  == {"username", "age"}
BadPath == "bad path"          \* a path on which xData.set raises
Values == {0, 1}               \* 0 violates the field's constraint set, 1 passes
Absent == -1

DataMaps == [Paths -> Values \cup {Absent}]

\* xData.set(path, value)
data_set(d, p, v) == [d EXCEPT ![p] = v]

\* xData.delete(path)
data_delete(d, p) == [d EXCEPT ![p] = Absent]

\* xSchema.validate(value) of one field
schema_validate(v) == v # 0

\* xSchema.validate_data(native): username is required, present values pass
validate_data(d) ==
    /\ d["username"] # Absent
    /\ \A p \in Paths : d[p] # Absent => schema_validate(d[p])

----------------------------------------------------------------------------
\* xEntityMetadata

\* The tags list and the metadata dict are objects that several holders can
\* share: each carries the identity (ref) of the object next to its content,
\* and a write to an object is a write to every holder of its ref. The values
\* of the metadata dict are nested objects {"v": val} with a ref of their own.
Tags      == {"t"}
MetaKeys  == {"k"}
NoNested  == [ref |-> 0, val |-> Absent]      \* the key holds nothing
LiteralRef == 0                                \* an object written in a literal

\* [] and {} made at a point of the program that the token `ref` names
NewList(ref) == [ref |-> ref, items |-> <<>>]
NewDict(ref) == [ref |-> ref, map |-> [k \in MetaKeys |-> NoNested]]

\* xEntityMetadata.__init__ (the list and the dict it makes are named by the
\* uuid4 it draws): datetime.now() is read for created_at and read again,
\* later, for updated_at
NewMetadata(id, entity_type, now, later) ==
    [ id         |-> id,
      type       |-> entity_type,
      state      |-> DRAFT,
      version    |-> 1,
      created_at |-> now,
      updated_at |-> later,
      tags       |-> NewList(id),
      metadata   |-> NewDict(id) ]

UpdateVersionNoBump(m, now) == [m EXCEPT !.updated_at = now]

\* xEntityMetadata.update_version
update_version(m, now) ==
    [m EXCEPT !.version = @ + 1, !.updated_at = now]

----------------------------------------------------------------------------
\* aEntity

DIRECT    == "DIRECT"
DELEGATED == "DELEGATED"
Unset     == -2

\* the accessors of the fields username and age of the class UserEntity, a
\* subclass of xEntity: its metaclass is the one of xEntity,
\* PerformanceModeMetaclass
DirectFields == [f \in Paths |-> DIRECT]

\* the class xEntity itself declares no field and has no accessor for one
NoFields == [f \in {} |-> DIRECT]

\* aEntity.__init__ plus the attributes of the facade instance wrapping it;
\* strategy gives the accessor of each declared field of its class
NewEntity(id, entity_type, data, hasSchema, strategy, now, later) ==
    [ metadata     |-> NewMetadata(id, entity_type, now, later),
      data         |-> data,
      hasSchema    |-> hasSchema,
      actions      |-> <<>>,
      cache        |-> {},
      schema_cache |-> FALSE,
      strategy     |-> strategy,
      slots        |-> [f \in DOMAIN strategy |-> Unset],
      hash_cache   |-> Unset ]

\* aEntity._clear_cache
clear_cache(e) == [e EXCEPT !.cache = {}, !.schema_cache = FALSE]

ValidateSkipped(e) == TRUE

\* aEntity._validate
validate(e) == IF ~e.hasSchema THEN TRUE ELSE validate_data(e.data)

\* aEntity._can_transition_to
can_transition_to(e, target) ==
    LET current_state == e.metadata.state
        allowed_states == IF current_state \in DOMAIN state_transitions
                          THEN state_transitions[current_state] ELSE {}
    IN  target \in allowed_states

TransitionToEager(e, target, now) ==
    IF ~can_transition_to(e, target)
    THEN [err |-> "StateError", reason |-> "Transition not allowed", e |-> e]
    ELSE IF target = VALIDATED /\ ~validate(e)
    THEN [err |-> "StateError", reason |-> "Validation failed",
          e |-> [e EXCEPT !.metadata.state = target]]
    ELSE [err |-> "ok", reason |-> "",
          e |-> [e EXCEPT !.metadata =
                    update_version([@ EXCEPT !.state = target], now)]]

TransitionToNoBump(e, target, now) ==
    IF ~can_transition_to(e, target)
    THEN [err |-> "StateError", reason |-> "Transition not allowed", e |-> e]
    ELSE IF target = VALIDATED /\ ~validate(e)
    THEN [err |-> "StateError", reason |-> "Validation failed", e |-> e]
    ELSE [err |-> "ok", reason |-> "",
          e |-> [e EXCEPT !.metadata.state = target]]

\* aEntity._transition_to: the outcome and the entity after the call
transition_to(e, target, now) ==
    IF ~can_transition_to(e, target)
    THEN [err |-> "StateError", reason |-> "Transition not allowed", e |-> e]
    ELSE IF target = VALIDATED /\ ~validate(e)
    THEN [err |-> "StateError", reason |-> "Validation failed", e |-> e]
    ELSE [err |-> "ok", reason |-> "",
          e |-> [e EXCEPT !.metadata =
                    update_version([@ EXCEPT !.state = target], now)]]

----------------------------------------------------------------------------
\* Field mutations of aEntity

SetResetsDraft(e, path, value, now) ==
    IF path = BadPath
    THEN [err |-> "DataError", e |-> e]
    ELSE [err |-> "ok",
          e |-> clear_cache([e EXCEPT !.data = data_set(@, path, value),
                                      !.metadata = update_version(
                                          [@ EXCEPT !.state = DRAFT], now)])]

\* aEntity._set
set_(e, path, value, now) ==
    IF path = BadPath
    THEN [err |-> "DataError", e |-> e]
    ELSE [err |-> "ok",
          e |-> clear_cache([e EXCEPT !.data = data_set(@, path, value),
                                      !.metadata = update_version(@, now)])]

\* aEntity._delete
delete_(e, path, now) ==
    IF path = BadPath
    THEN [err |-> "DataError", e |-> e]
    ELSE [err |-> "ok",
          e |-> clear_cache([e EXCEPT !.data = data_delete(@, path),
                                      !.metadata = update_version(@, now)])]

UpdateAllOrNothing(e, updates, now) ==
    IF \E a \in DOMAIN updates : updates[a][1] = BadPath
    THEN [err |-> "DataError", e |-> e]
    ELSE [err |-> "ok",
          e |-> clear_cache(
                  [e EXCEPT !.data = [p \in Paths |->
                                        IF \E a \in DOMAIN updates : updates[a][1] = p
                                        THEN updates[CHOOSE a \in DOMAIN updates :
                                                        updates[a][1] = p][2]
                                        ELSE @[p]],
                            !.metadata = [@ EXCEPT !.version = @ + Len(updates),
                                                   !.updated_at =
                                                       IF updates = <<>> THEN @ ELSE now]])]

\* aEntity._update: the pairs in iteration order, each through _set; the
\* first failure propagates and leaves the earlier pairs applied
RECURSIVE update_(_, _, _)
update_(e, updates, now) ==
    IF updates = <<>>
    THEN [err |-> "ok", e |-> e]
    ELSE LET r == set_(e, Head(updates)[1], Head(updates)[2], now)
         IN  IF r.err # "ok" THEN r ELSE update_(r.e, Tail(updates), now)

\* the mappings update() is called with: up to MaxUpd pairs, distinct keys,
\* each giving its path the value 1
RECURSIVE SeqsUpTo(_, _)
SeqsUpTo(S, n) ==
    IF n = 0 THEN {<<>>}
    ELSE LET shorter == SeqsUpTo(S, n - 1)
         IN  shorter \cup {Append(q, x) : q \in shorter, x \in S}

Mappings ==
    { m \in SeqsUpTo((Paths \cup {BadPath}) \X {1}, MaxUpd) :
        \A a, b \in DOMAIN m : a # b => m[a][1] # m[b][1] }

\* aEntity._cache_schema (through optimize_for_access / optimize_for_validation)
cache_schema(e) ==
    IF e.hasSchema /\ ~e.schema_cache THEN [e EXCEPT !.schema_cache = TRUE] ELSE e

----------------------------------------------------------------------------
\* Accessors synthesized by the metaclasses

enable_validation == TRUE

\* PerformanceModeMetaclass._create_direct_property, setter: the value goes
\* to the private attribute of the facade instance, unvalidated
direct_setter(e, f, v) ==
    [err |-> "ok", e |-> [e EXCEPT !.slots[f] = v]]

\* MemoryModeMetaclass._create_delegated_property, setter: validate, then
\* write to the xData of the entity
delegated_setter(e, f, v) ==
    IF enable_validation /\ ~schema_validate(v)
    THEN [err |-> "ValueError", e |-> e]
    ELSE [err |-> "ok", e |-> [e EXCEPT !.data = data_set(@, f, v)]]

\* a write e.<field> = value through the accessor of the class of e; a
\* class without an accessor of that name has __slots__ and no such
\* attribute
accessor_set(e, f, v) ==
    IF f \notin DOMAIN e.strategy THEN [err |-> "AttributeError", e |-> e]
    ELSE IF e.strategy[f] = DIRECT THEN direct_setter(e, f, v)
    ELSE delegated_setter(e, f, v)

\* PerformanceModeMetaclass._create_direct_property, getter: the private
\* attribute of the facade instance, or the default (None) when unset
direct_getter(e, f) == IF e.slots[f] # Unset THEN e.slots[f] ELSE Absent

\* MemoryModeMetaclass._create_delegated_property, getter: the xData of
\* the entity, or the default (None)
delegated_getter(e, f) == e.data[f]

\* a read e.<field> through the accessor of the class of e
accessor_get(e, f) ==
    IF e.strategy[f] = DIRECT THEN direct_getter(e, f) ELSE delegated_getter(e, f)

\* xEntity.get(path): aEntity._get reads the xData
get_(e, path) == e.data[path]

----------------------------------------------------------------------------
\* Actions of an entity

ActionNames == {"touch", "peek", "break"}
MissingAction == "missing-action"

\* the roles that callers hold; "*" in the roles of an action admits anyone
Roles == {"admin", "user"}
AnyRole == "*"
AllowedRoleSets == {{AnyRole}, {"admin"}}
CallerRoleSets == {{}, {"user"}, {"admin"}}

\* a plain callable handed to _register_action: it goes by its __name__ and
\* may carry a roles attribute (_export_actions reads it, default ["*"])
function_action(name, roles) ==
    [api_name |-> name, kind |-> "function", roles |-> roles,
     profile |-> "", constrained |-> FALSE]

\* a method under @xAction(api_name, roles, profile, in_types): constrained
\* says whether in_types holds a schema for the parameter of the call
xAction(name, roles, profile, constrained) ==
    [api_name |-> name, kind |-> "decorated", roles |-> roles,
     profile |-> profile, constrained |-> constrained]

ActionObjects ==
    { function_action(n, r) : n \in ActionNames, r \in AllowedRoleSets }
    \cup { xAction(n, r, p, c) : n \in ActionNames, r \in AllowedRoleSets,
                                 p \in {"QUERY", "COMMAND"}, c \in BOOLEAN }

\* the body of a registered action, called with the entity as context:
\* "touch" writes a field through _set, "peek" only reads, "break" writes a
\* field through _set and then raises
action_body(e, name, now) ==
    IF name = "touch" THEN set_(e, "age", 1, now)
    ELSE IF name = "break"
         THEN LET r == set_(e, "age", 1, now)
              IN  IF r.err = "ok" THEN [err |-> "RuntimeError", e |-> r.e] ELSE r
         ELSE [err |-> "ok", e |-> e]

\* aEntity._register_action: the table is a dict keyed by api_name (or
\* __name__), the assignment takes the place of what the key held
register_action(e, action) ==
    [e EXCEPT !.actions = (action.api_name :> action) @@ @]

\* the role check of an action: "*" admits every caller, otherwise the
\* caller needs one of the roles of the action
authorized(action, roles) ==
    AnyRole \in action.roles \/ action.roles \cap roles # {}

\* xAction.execute(context, **kwargs): authorization, validation of the
\* supplied parameter against its input constraint, then the body
xaction_execute(e, action, roles, param, now) ==
    IF ~authorized(action, roles)
    THEN [err |-> "AuthorizationError", reason |-> "", e |-> e, invoked |-> 0]
    ELSE IF action.constrained /\ param # Absent /\ ~schema_validate(param)
    THEN [err |-> "ValidationError", reason |-> "", e |-> e, invoked |-> 0]
    ELSE LET r == action_body(e, action.api_name, now)
         IN  [err |-> r.err, reason |-> "", e |-> r.e, invoked |-> 1]

\* an _execute_action that takes an unknown name for a call that does nothing
ExecuteActionLenient(e, name, roles, param, now) ==
    IF name \notin DOMAIN e.actions
    THEN [err |-> "ok", reason |-> "", e |-> e, invoked |-> 0]
    ELSE LET action == e.actions[name]
         IN  IF action.kind # "function"
             THEN xaction_execute(e, action, roles, param, now)
             ELSE LET r == action_body(e, name, now)
                  IN  [err |-> r.err, reason |-> "", e |-> r.e, invoked |-> 1]

\* an _execute_action that restores the entity when the body raises
ExecuteActionRollsBack(e, name, roles, param, now) ==
    IF name \notin DOMAIN e.actions
    THEN [err |-> "ActionError", reason |-> "Action not registered",
          e |-> e, invoked |-> 0]
    ELSE LET action == e.actions[name]
             r == IF action.kind # "function"
                  THEN xaction_execute(e, action, roles, param, now)
                  ELSE LET b == action_body(e, name, now)
                       IN  [err |-> b.err, reason |-> "", e |-> b.e, invoked |-> 1]
         IN  IF r.err = "ok" THEN r ELSE [r EXCEPT !.e = e]

\* aEntity._execute_action(action_name, **kwargs): the lookup, then the
\* action's own execute for a decorated function or an Action instance, and
\* the plain call action(self, **kwargs) for anything else; roles are what
\* the action's execute takes the caller to hold
execute_action(e, name, roles, param, now) ==
    IF name \notin DOMAIN e.actions
    THEN [err |-> "ActionError", reason |-> "Action not registered",
          e |-> e, invoked |-> 0]
    ELSE LET action == e.actions[name]
         IN  IF action.kind # "function"
             THEN xaction_execute(e, action, roles, param, now)
             ELSE LET r == action_body(e, name, now)
                  IN  [err |-> r.err, reason |-> "", e |-> r.e, invoked |-> 1]

\* aEntity._list_actions
list_actions(e) == DOMAIN e.actions

----------------------------------------------------------------------------
\* Snapshots: _to_dict / _from_dict

MissingInt == -3
MissingStr == "<missing>"
MissingIso == <<"missing">>

\* datetime.isoformat / datetime.fromisoformat
isoformat(t) == <<"iso", t>>
fromisoformat(s) == s[2]

\* xData.to_native: the plain mapping of the paths that hold a value
to_native(d) == [p \in {q \in Paths : d[q] # Absent} |-> d[p]]

\* xData(mapping)
xData(n) == [p \in Paths |-> IF p \in DOMAIN n THEN n[p] ELSE Absent]

\* xEntityMetadata.to_dict
metadata_to_dict(m) ==
    [ id         |-> m.id,
      type       |-> m.type,
      state      |-> m.state,
      version    |-> m.version,
      created_at |-> isoformat(m.created_at),
      updated_at |-> isoformat(m.updated_at),
      tags       |-> m.tags,
      metadata   |-> m.metadata ]

MetadataFromDictDropsVersion(m, sd, fresh, now, later) ==
    [ id         |-> IF sd.id = MissingInt THEN fresh ELSE sd.id,
      type       |-> IF sd.type = MissingStr THEN "entity" ELSE sd.type,
      state      |-> IF sd.state = MissingStr THEN DRAFT ELSE sd.state,
      version    |-> 1,
      created_at |-> fromisoformat(IF sd.created_at = MissingIso
                                   THEN isoformat(now) ELSE sd.created_at),
      updated_at |-> fromisoformat(IF sd.updated_at = MissingIso
                                   THEN isoformat(later) ELSE sd.updated_at),
      tags       |-> IF sd.tags.ref = MissingInt THEN NewList(fresh) ELSE sd.tags,
      metadata   |-> IF sd.metadata.ref = MissingInt
                     THEN NewDict(fresh) ELSE sd.metadata ]

\* xEntityMetadata.from_dict: every key is taken from the snapshot, a key the
\* snapshot lacks gets its default (a fresh uuid4, "entity", DRAFT, 1, now,
\* a new list, a new dict); datetime.now() is read once for the default of
\* created_at and once more, later, for that of updated_at; the tags and
\* metadata of the snapshot are taken as the objects they are
metadata_from_dict(m, sd, fresh, now, later) ==
    [ id         |-> IF sd.id = MissingInt THEN fresh ELSE sd.id,
      type       |-> IF sd.type = MissingStr THEN "entity" ELSE sd.type,
      state      |-> IF sd.state = MissingStr THEN DRAFT ELSE sd.state,
      version    |-> IF sd.version = MissingInt THEN 1 ELSE sd.version,
      created_at |-> fromisoformat(IF sd.created_at = MissingIso
                                   THEN isoformat(now) ELSE sd.created_at),
      updated_at |-> fromisoformat(IF sd.updated_at = MissingIso
                                   THEN isoformat(later) ELSE sd.updated_at),
      tags       |-> IF sd.tags.ref = MissingInt THEN NewList(fresh) ELSE sd.tags,
      metadata   |-> IF sd.metadata.ref = MissingInt
                     THEN NewDict(fresh) ELSE sd.metadata ]

\* aEntity._to_dict (the _schema and _actions blocks are never read back)
to_dict(e) ==
    [ has_metadata |-> TRUE,
      metadata     |-> metadata_to_dict(e.metadata),
      has_data     |-> TRUE,
      data         |-> to_native(e.data) ]

\* aEntity._from_dict
from_dict(e, snap, fresh, now, later) ==
    LET e1 == IF snap.has_metadata
              THEN [e EXCEPT !.metadata = metadata_from_dict(@, snap.metadata, fresh, now,
                                                           later)]
              ELSE e
    IN  IF snap.has_data THEN [e1 EXCEPT !.data = xData(snap.data)] ELSE e1

\* TRUE iff loading the snapshot into an entity stores a fresh uuid4 as its id
UsesFreshId(snap) == snap.has_metadata /\ snap.metadata.id = MissingInt

\* TRUE iff the entity the factory builds from the snapshot keeps a fresh
\* uuid4 (that of its constructor or that of the load) as its id
KeepsFreshId(snap) == ~snap.has_metadata \/ snap.metadata.id = MissingInt

\* TRUE iff a load of the snapshot keeps a time it reads as a timestamp
UsesNow(snap) ==
    /\ snap.has_metadata
    /\ snap.metadata.created_at = MissingIso \/ snap.metadata.updated_at = MissingIso

\* TRUE iff the entity the factory builds from the snapshot keeps a time
\* read by its constructor or by the load
KeepsNow(snap) == ~snap.has_metadata \/ UsesNow(snap)

EmptyMetadata ==
    [ id |-> MissingInt, type |-> MissingStr, state |-> MissingStr,
      version |-> MissingInt, created_at |-> MissingIso, updated_at |-> MissingIso,
      tags |-> NewList(MissingInt), metadata |-> NewDict(MissingInt) ]

\* snapshots written by hand: {}, {"_metadata": {}}, and an export taken at
\* time 0 of a new entity with id 1 (its list and dict are literals of the
\* snapshot); a snapshot that lacks tags or metadata lacks the id as well
HandSnaps ==
    { [has_metadata |-> FALSE, metadata |-> EmptyMetadata,
       has_data |-> FALSE, data |-> to_native([p \in Paths |-> Absent])],
      [has_metadata |-> TRUE, metadata |-> EmptyMetadata,
       has_data |-> FALSE, data |-> to_native([p \in Paths |-> Absent])],
      [has_metadata |-> TRUE,
       metadata |-> [metadata_to_dict(NewMetadata(1, "user", 0, 0))
                        EXCEPT !.tags.ref = LiteralRef, !.metadata.ref = LiteralRef],
       has_data |-> TRUE,
       data |-> to_native([p \in Paths |-> IF p = "username" THEN 1 ELSE Absent])] }

\* the snapshots a caller can hold: exports of the live entities and HandSnaps
Snapshots == {to_dict(ents[j]) : j \in DOMAIN ents} \cup HandSnaps

\* a read of self.<name> in a method of the facade, where value is what
\* the @property member of facade.py returns: when the metaclass has put a
\* direct accessor in the place of that member, the read gives the default
\* of the accessor, None, because no private attribute _<name> is ever set
facade_property(xc, name, value, none) ==
    IF name \in xc.properties THEN none ELSE value

\* aEntityFactory.from_dict wrapped by xEntity.from_dict: a new aEntity
\* (type "entity", no data), loaded from the snapshot, behind a new facade
factory_from_dict(snap, hasSchema, strategy, fresh, now, later) ==
    from_dict(NewEntity(fresh, "entity", [p \in Paths |-> Absent],
                        hasSchema, strategy, now, later),
              snap, fresh, now, later)

\* list.copy() / dict.copy(): a new object holding the same elements
list_copy(l, ref) == [l EXCEPT !.ref = ref]
dict_copy(d, ref) == [d EXCEPT !.ref = ref]

\* xEntity.copy: export, load the export into a new entity of the same class
\* with the schema that self.schema reads, then give it shallow copies of
\* the tags and metadata
copy(e, fresh, now, later, xc) ==
    LET schema == facade_property(xc, "schema", e.hasSchema, FALSE)
        entity == factory_from_dict(to_dict(e), schema, e.strategy, fresh, now,
                                    later)
    IN  [entity EXCEPT !.metadata.tags = list_copy(e.metadata.tags, fresh),
                       !.metadata.metadata = dict_copy(e.metadata.metadata, fresh)]

----------------------------------------------------------------------------
\* Identity of the facade: __hash__ and __eq__

\* hash(str) of an id
HashMod == 64
hash_of(id) == (31 * id + 7) % HashMod

\* xEntity.__hash__: the value returned and the entity after the call; the
\* first call hashes what self.id reads
entity_hash(e, xc) ==
    LET id == facade_property(xc, "id", e.metadata.id, Absent)
    IN  IF e.hash_cache = Unset
        THEN [value |-> hash_of(id), e |-> [e EXCEPT !.hash_cache = hash_of(id)]]
        ELSE [value |-> e.hash_cache, e |-> e]

\* xEntity.__eq__ against an object that is an xEntity with the given id, or
\* is no xEntity: compares what self.id and other.id read
entity_eq(e, other, xc) ==
    IF ~other.is_entity THEN FALSE
    ELSE facade_property(xc, "id", e.metadata.id, Absent)
           = facade_property(xc, "id", other.id, Absent)

----------------------------------------------------------------------------
\* xEntityCache

\* PerformanceConfig.entity_cache_size
entity_cache_size == 1024

CacheKeys   == {1, 2, 3}     \* entity ids
CacheValues == {1, 2}        \* entity references
NoValue     == -4            \* None

\* xEntityCache.__init__: entries is the OrderedDict, oldest position first
NewCache(max_size) ==
    [entries |-> <<>>, max_size |-> max_size, hit_count |-> 0, miss_count |-> 0]

\* key in self._cache
CacheHas(c, key) == \E a \in DOMAIN c.entries : c.entries[a].key = key

\* the entries without the one of the key, in their order
CacheWithout(entries, key) == SelectSeq(entries, LAMBDA x : x.key # key)

\* self._cache[key]
CacheValue(c, key) ==
    c.entries[CHOOSE a \in DOMAIN c.entries : c.entries[a].key = key].value

\* OrderedDict.move_to_end(key)
move_to_end(entries, key) ==
    LET x == entries[CHOOSE a \in DOMAIN entries : entries[a].key = key]
    IN  Append(CacheWithout(entries, key), x)

GetImplNoCount(c, key) ==
    IF CacheHas(c, key)
    THEN [value |-> CacheValue(c, key),
          c |-> [c EXCEPT !.entries = move_to_end(@, key)]]
    ELSE [value |-> NoValue, c |-> [c EXCEPT !.miss_count = @ + 1]]

GetImplNoMove(c, key) ==
    IF CacheHas(c, key)
    THEN [value |-> CacheValue(c, key), c |-> [c EXCEPT !.hit_count = @ + 1]]
    ELSE [value |-> NoValue, c |-> [c EXCEPT !.miss_count = @ + 1]]

\* xEntityCache._get_impl: the value returned and the cache after the call
get_impl(c, key) ==
    IF CacheHas(c, key)
    THEN [value |-> CacheValue(c, key),
          c |-> [c EXCEPT !.hit_count = @ + 1,
                          !.entries = move_to_end(@, key)]]
    ELSE [value |-> NoValue, c |-> [c EXCEPT !.miss_count = @ + 1]]

\* self._cache[key] = value: a present key keeps its position
CacheAssign(entries, key, value) ==
    IF \E a \in DOMAIN entries : entries[a].key = key
    THEN [a \in DOMAIN entries |->
            IF entries[a].key = key THEN [key |-> key, value |-> value]
            ELSE entries[a]]
    ELSE Append(entries, [key |-> key, value |-> value])

PutImplNoEvict(c, key, value) ==
    [c EXCEPT !.entries = move_to_end(CacheAssign(c.entries, key, value), key)]

\* xEntityCache._put_impl
put_impl(c, key, value) ==
    LET stored == move_to_end(CacheAssign(c.entries, key, value), key)
    IN  [c EXCEPT !.entries = IF Len(stored) > c.max_size
                              THEN Tail(stored)      \* popitem(last=False)
                              ELSE stored]

CacheClearResetsCounters(c) ==
    [c EXCEPT !.entries = <<>>, !.hit_count = 0, !.miss_count = 0]

\* xEntityCache.clear
cache_clear(c) == [c EXCEPT !.entries = <<>>]

\* xEntityCache.hit_rate, as the fraction <<numerator, denominator>>; 0.0
\* is <<0, 1>>
hit_rate(c) ==
    LET total == c.hit_count + c.miss_count
    IN  IF total > 0 THEN <<c.hit_count, total>> ELSE <<0, 1>>

\* xEntityCache.stats()
stats(c) ==
    [size |-> Len(c.entries), max_size |-> c.max_size, hits |-> c.hit_count,
     misses |-> c.miss_count, hit_rate |-> hit_rate(c)]

\* xEntityCache.stats()['size']
CacheSize(c) == Len(c.entries)

----------------------------------------------------------------------------
\* Configuration and class synthesis

PERFORMANCE == "performance"
MEMORY == "memory"
BALANCED == "balanced"
AUTO == "auto"
PerformanceMode == {PERFORMANCE, MEMORY, BALANCED, AUTO}

auto_property_threshold == 10
auto_instance_threshold == 1000

\* xEntityConfigManager.__init__ with the defaults of xEntityConfig
NewConfigManager ==
    [performance_mode |-> PERFORMANCE, instance_count |-> 0,
     property_counts |-> [name \in {} |-> 0]]

\* xEntityConfigManager._get_effective_mode
get_effective_mode(cm, property_count) ==
    IF cm.performance_mode # AUTO THEN cm.performance_mode
    ELSE IF property_count > auto_property_threshold THEN MEMORY
    ELSE IF cm.instance_count > auto_instance_threshold THEN MEMORY
    ELSE PERFORMANCE

\* xEntityConfigManager.register_entity_creation: count, then recommend
register_entity_creation(cm, name, property_count) ==
    LET cm2 == [cm EXCEPT !.instance_count = @ + 1,
                          !.property_counts =
                              (name :> property_count) @@ @]
    IN  [cm |-> cm2, mode |-> get_effective_mode(cm2, property_count)]

\* create_xentity_metaclass: the metaclass for the mode of the moment
create_xentity_metaclass(mode) ==
    IF mode = PERFORMANCE THEN "PerformanceModeMetaclass"
    ELSE IF mode = MEMORY THEN "MemoryModeMetaclass"
    ELSE IF mode = BALANCED THEN "BalancedModeMetaclass"
    ELSE "PerformanceModeMetaclass"

\* the names that class bodies give their fields, in declaration order
FieldSeq == <<"username", "age", "Email", "STATUS", "bio", "city", "zip",
              "role", "lang", "notes", "phone", "title">>
FieldCounts == {4, auto_property_threshold, auto_property_threshold + 1}

\* str.lower on the names of FieldSeq
lower(name) ==
    IF name = "Email" THEN "email"
    ELSE IF name = "STATUS" THEN "status"
    ELSE name

\* the methods that class bodies declare as actions, by member name
Members == {"m1", "m2"}
DeclaredActions ==
    { xAction("touch", {AnyRole}, "COMMAND", FALSE),
      xAction("touch", {"admin"}, "QUERY", FALSE) }

\* the @property members of the body of xEntity (facade.py)
FacadeProperties ==
    {"id", "type", "schema", "data", "actions", "state", "version",
     "created_at", "updated_at"}

\* the @property members that the bodies of other classes declare
PropertyMembers == {"shown"}

\* a class statement: the name of the class, whether xEntity is its base,
\* the first fields of FieldSeq, each declared with @xSchema, its @property
\* members, and its action declarations in source order (member name,
\* action); no body has Annotated or dataclass fields or fields of other
\* libraries
ClassBodies ==
    [ name   : {"U"},
      base   : {"xEntity", "object"},
      fields : FieldCounts,
      props  : SUBSET PropertyMembers,
      decls  : SeqsUpTo(Members \X DeclaredActions, MaxDecls) ]
NoBody == [name |-> "", base |-> "object", fields |-> 0, props |-> {},
           decls |-> <<>>]

\* class xEntity(metaclass=create_xentity_metaclass()) of facade.py
xEntityBody ==
    [name |-> "xEntity", base |-> "object", fields |-> 0,
     props |-> FacadeProperties, decls |-> <<>>]

\* class UserEntity(xEntity) with the @xSchema fields username and age
UserEntityBody ==
    [name |-> "UserEntity", base |-> "xEntity", fields |-> Cardinality(Paths),
     props |-> {}, decls |-> <<>>]

\* the namespace that executing the class body leaves: a later member of
\* the same name takes the place of an earlier one
RECURSIVE namespace(_)
namespace(decls) ==
    IF decls = <<>> THEN <<>>
    ELSE LET d == decls[Len(decls)]
         IN  (d[1] :> d[2]) @@ namespace(SubSeq(decls, 1, Len(decls) - 1))

\* DecoratorScanner._convert_property_to_xschema: the schema that
\* xSchema(type=..., description=...) gives, or None when that raises
convert_property_to_xschema(name, xschema_accepts) ==
    IF xschema_accepts THEN [type |-> "str", description |-> name] ELSE <<>>

\* DecoratorScanner.scan_properties: one PropertyInfo per field declared
\* with @xSchema (step 1), then one per @property member that converts to a
\* truthy schema (step 2); steps 3 and 4 find nothing in the bodies above
scan_properties(body, xschema_accepts) ==
    { FieldSeq[k] : k \in 1..body.fields }
      \cup { m \in body.props :
                convert_property_to_xschema(m, xschema_accepts) # <<>> }

\* DecoratorScanner.scan_actions: one ActionInfo per member of the namespace
\* that carries the action marker
scan_actions(ns) == { [name |-> m, action |-> ns[m]] : m \in DOMAIN ns }

\* BalancedModeMetaclass._is_frequently_accessed
is_frequently_accessed(name) ==
    lower(name) \in {"id", "name", "username", "email", "status", "active"}

\* PerformanceModeMetaclass.__new__: registers the creation (the mode it
\* gets back is not used) and gives every property found a direct accessor,
\* which takes the place of a @property member of that name
PerformanceModeMetaclass(body, cm, xschema_accepts) ==
    LET properties == scan_properties(body, xschema_accepts)
    IN  [ cm |-> register_entity_creation(cm, body.name,
                                          Cardinality(properties)).cm,
          klass |-> [ properties |-> properties,
                      strategy   |-> [f \in properties |-> DIRECT],
                      actions    |-> scan_actions(namespace(body.decls)),
                      mode       |-> PERFORMANCE,
                      metaclass  |-> "PerformanceModeMetaclass",
                      base       |-> body.base,
                      name       |-> body.name ] ]

\* MemoryModeMetaclass.__new__: every field gets a delegated accessor
MemoryModeMetaclass(body, cm, xschema_accepts) ==
    LET properties == scan_properties(body, xschema_accepts)
    IN  [ cm |-> cm,
          klass |-> [ properties |-> properties,
                      strategy   |-> [f \in properties |-> DELEGATED],
                      actions    |-> scan_actions(namespace(body.decls)),
                      mode       |-> MEMORY,
                      metaclass  |-> "MemoryModeMetaclass",
                      base       |-> body.base,
                      name       |-> body.name ] ]

\* BalancedModeMetaclass.__new__: direct for the frequently accessed names,
\* delegated for the others
BalancedModeMetaclass(body, cm, xschema_accepts) ==
    LET properties == scan_properties(body, xschema_accepts)
    IN  [ cm |-> cm,
          klass |-> [ properties |-> properties,
                      strategy   |-> [f \in properties |->
                                        IF is_frequently_accessed(f)
                                        THEN DIRECT ELSE DELEGATED],
                      actions    |-> scan_actions(namespace(body.decls)),
                      mode       |-> BALANCED,
                      metaclass  |-> "BalancedModeMetaclass",
                      base       |-> body.base,
                      name       |-> body.name ] ]

NoClass == [properties |-> {}, strategy |-> <<>>, actions |-> {}, mode |-> "",
            metaclass |-> "", base |-> "", name |-> ""]

\* the metaclass of a class statement: class U(xEntity) gets the metaclass
\* of its base, whatever the mode is by then; a class written as
\* class C(metaclass=create_xentity_metaclass()) gets the one of the mode
\* of the moment
metaclass_of(body, cm, xc) ==
    IF body.base = "xEntity" THEN xc.metaclass
    ELSE create_xentity_metaclass(cm.performance_mode)

\* the class statement: the metaclass synthesizes the class
class_statement(body, cm, xc, xschema_accepts) ==
    LET metaclass == metaclass_of(body, cm, xc)
    IN  IF metaclass = "MemoryModeMetaclass"
        THEN MemoryModeMetaclass(body, cm, xschema_accepts)
        ELSE IF metaclass = "BalancedModeMetaclass"
             THEN BalancedModeMetaclass(body, cm, xschema_accepts)
             ELSE PerformanceModeMetaclass(body, cm, xschema_accepts)

\* n class statements "class Earlier(xEntity): pass" after the import: each
\* is counted, and the name is recorded with no property
EarlierClasses(cm, n) ==
    IF n = 0 THEN cm
    ELSE [cm EXCEPT !.instance_count = @ + n,
                    !.property_counts = ("Earlier" :> 0) @@ @]

\* importing the package executes facade.py, whose class statement makes
\* xEntity under the default mode of a new configuration manager
import_package(xschema_accepts) ==
    class_statement(xEntityBody, NewConfigManager, NoClass, xschema_accepts)

\* U.from_data(d): xEntity.__init__(internal) keeps the aEntity it is given,
\* whose action table is empty; the _xentity_actions of the class stay
\* there; each declared field has the accessor its class gave it
new_instance(k, id, d, now, later) ==
    NewEntity(id, "entity", d, FALSE, [f \in Paths |-> k.strategy[f]], now, later)

\* C(): an instance of a class written without the xEntity base, whose
\* body gives every instance an xData under the name data, where the
\* delegated accessors look for it, and nothing else
new_object(k) ==
    [ data     |-> [p \in Paths |-> Absent],
      slots    |-> [f \in Paths |-> Unset],
      strategy |-> [f \in Paths |-> k.strategy[f]] ]

\* the arguments of a call that last does not hold
NoArgs == [roles |-> {}, param |-> Absent, action |-> function_action("", {}),
           body |-> NoBody]

----------------------------------------------------------------------------
\* Threads

Threads == 1..MaxThreads

ThreadSafetyDisabled == FALSE

\* xEntityConfig.enable_thread_safety
enable_thread_safety == TRUE

\* a thread outside any call; its locals: the key and value of the call, the
\* number read for an increment or the object just constructed, the outcome
\* of a test, the calls it has made, the caches that get_entity_cache() has
\* returned to it, the cache object that its call is on
IdleThread ==
    [pc |-> "idle", op |-> "", key |-> 0, value |-> 0, local |-> 0,
     hit |-> FALSE, calls |-> 0, seen |-> {}, cache |-> 0]

NoCompleted == [set |-> 0, get |-> 0, put |-> 0, get_entity_cache |-> 0,
                clear_caches |-> 0]

\* no cache object has been replaced
NoDisplaced == [o \in {} |-> 0]

NoThreads ==
    /\ threads = [t \in Threads |-> IdleThread]
    /\ lock = 0
    /\ completed = NoCompleted
    /\ serial = entity_cache

\* the facade of the first entity has called get_entity_cache() in __init__
CacheBound ==
    /\ entity_cache_instance = 1
    /\ created = 1
    /\ displaced = NoDisplaced

\* the xEntityCache object o: the one behind get_entity_cache() or one that
\* was replaced there
CacheOf(o) == IF o = entity_cache_instance THEN entity_cache ELSE displaced[o].c

\* the owner of self._lock of the xEntityCache object o
LockOf(o) == IF o = entity_cache_instance THEN lock ELSE displaced[o].lock

\* the xEntityCache object o has contents c and its lock the owner l
SetObject(o, c, l) ==
    IF o = entity_cache_instance
    THEN /\ entity_cache' = c
         /\ lock' = l
         /\ UNCHANGED displaced
    ELSE /\ displaced' = [displaced EXCEPT ![o] = [c |-> c, lock |-> l]]
         /\ UNCHANGED <<entity_cache, lock>>

\* with self._lock: the RLock admits its owner again; without thread
\* safety _lock is None and nothing is acquired
rlock_admits(owner, t) == ~enable_thread_safety \/ owner \in {0, t}

\* the field that a thread writes
ThreadField(t) == IF t % 2 = 1 THEN "age" ELSE "username"

\* the entities that whole _set calls of the threads of a set give, in
\* every order
RECURSIVE SequentialOutcomes(_, _, _)
SequentialOutcomes(e, ts, now) ==
    IF ts = {} THEN {e}
    ELSE UNION { SequentialOutcomes(set_(e, ThreadField(t), t, now).e, ts \ {t}, now) :
                 t \in ts }

----------------------------------------------------------------------------
\* The state machine

\* the record of a call: operation, entity called on, outcome, the reason of
\* a StateError, the target of a transition, the number of pairs of an update
Call(op, idx, result, reason, target, n) ==
    [op |-> op, idx |-> idx, result |-> result, reason |-> reason,
     target |-> target, n |-> n]

TransitionOps == {"transition_to", "to_validated", "commit", "archive", "restore"}
MutationOps   == {"set", "delete", "update"}

\* history of an entity after a call that took it from e to e2: the states
\* it went through since construction, kept for as long as nothing but
\* accepted transitions has touched its metadata or its fields
\* it also keeps the values that hash(e) has returned
NoHistory == [pure |-> FALSE, path |-> <<>>, hashes |-> {}]

HistAfter(h, op, result, e, e2) ==
    IF op \in TransitionOps
    THEN IF result = "ok" /\ h.pure
         THEN [h EXCEPT !.path = Append(@, e2.metadata.state)] ELSE h
    ELSE IF e2.metadata # e.metadata \/ e2.data # e.data \/ e2.slots # e.slots
         THEN [h EXCEPT !.pure = FALSE, !.path = <<>>]
         ELSE h

\* a call on entity i with outcome r (an error and the entity afterwards)
ApplyWith(op, i, r, reason, target, n, a) ==
    /\ r.e.metadata.version <= MaxVersion
    /\ ents' = [ents EXCEPT ![i] = r.e]
    /\ hist' = [hist EXCEPT ![i] = HistAfter(@, op, r.err, ents[i], r.e)]
    /\ last' = Call(op, i, r.err, reason, target, n)
    /\ UNCHANGED <<clock, nextId>>
    /\ UNCHANGED cacheVars
    /\ UNCHANGED classVars
    /\ UNCHANGED threadVars
    /\ UNCHANGED singletonVars
    /\ args' = a

Apply(op, i, r, reason, target, n) == ApplyWith(op, i, r, reason, target, n, NoArgs)

\* the configuration manager and the class xEntity once the package is
\* imported, before any other class statement
PackageImported ==
    /\ converts \in BOOLEAN
    /\ config_manager = import_package(converts).cm
    /\ xEntityClass = import_package(converts).klass
    /\ klass = NoClass
    /\ objs = <<>>

\* the same once the class statement of UserEntity has run after the
\* import: the entities with the accessors of DirectFields are instances
\* of that class
UserEntityDeclared ==
    /\ converts \in BOOLEAN
    /\ LET imported == import_package(converts)
           r == class_statement(UserEntityBody, imported.cm, imported.klass,
                                converts)
       IN  /\ config_manager = r.cm
           /\ xEntityClass = imported.klass
           /\ klass = r.klass
    /\ objs = <<>>

InitData ==
    { [p \in Paths |-> IF p = "username" THEN v ELSE Absent] : v \in Values }

\* UserEntity(**kwargs): the aEntity takes the class name as type and no
\* schema, then every keyword that names an attribute (hasattr) goes
\* through the accessor of its field
RECURSIVE InitAccessors(_, _)
InitAccessors(e, fields) ==
    IF fields = {} THEN [err |-> "ok", e |-> e]
    ELSE LET f == CHOOSE x \in fields : TRUE
             r == accessor_set(e, f, e.data[f])
         IN  IF r.err # "ok" THEN r ELSE InitAccessors(r.e, fields \ {f})

Construct(id, kwargs, strategy, now, later) ==
    InitAccessors(NewEntity(id, "userentity", kwargs, FALSE, strategy, now, later),
                  {f \in DOMAIN strategy : kwargs[f] # Absent})

Init ==
    /\ clock \in 0..1
    /\ \E d \in InitData :
         \/ \E hasSchema \in BOOLEAN :      \* UserEntity.from_data(d, schema)
              ents = <<NewEntity(1, "entity", d, hasSchema, DirectFields, 0, clock)>>
         \/ /\ Construct(1, d, DirectFields, 0, clock).err = "ok"
            /\ ents = <<Construct(1, d, DirectFields, 0, clock).e>>
    /\ hist = <<[pure |-> TRUE, path |-> <<DRAFT>>, hashes |-> {}]>>
    /\ nextId = 2
    /\ last = Call("new", 1, "ok", "", "", 0)
    /\ entity_cache = NewCache(entity_cache_size)
    /\ touched = <<>>
    /\ UserEntityDeclared
    /\ args = NoArgs
    /\ NoThreads
    /\ CacheBound

\* what a second datetime.now() of one call can return: the time of the
\* first read or a later one
Reads == {t \in clock..MaxClock : t <= clock + 1}

\* the same for a call that keeps what it reads, or not: a time that is
\* read and dropped leaves no trace, and the passing of time is Tick
ReadsKept(kept) == IF kept THEN Reads ELSE {clock}

\* time passes
Tick ==
    /\ clock < MaxClock
    /\ clock' = clock + 1
    /\ last' = Call("tick", 0, "ok", "", "", 0)
    /\ UNCHANGED <<ents, hist, nextId>>
    /\ UNCHANGED cacheVars
    /\ UNCHANGED classVars
    /\ UNCHANGED threadVars
    /\ UNCHANGED singletonVars
    /\ args' = NoArgs

\* aEntity._transition_to(target)
TransitionTo(i, target) ==
    LET r == transition_to(ents[i], target, clock)
    IN  Apply("transition_to", i, r, r.reason, target, 0)

\* xEntity.to_validated
ToValidated(i) ==
    LET r == transition_to(ents[i], VALIDATED, clock)
    IN  Apply("to_validated", i, r, r.reason, VALIDATED, 0)

\* xEntity.commit
Commit(i) ==
    LET r == transition_to(ents[i], COMMITTED, clock)
    IN  Apply("commit", i, r, r.reason, COMMITTED, 0)

\* xEntity.archive
Archive(i) ==
    LET r == transition_to(ents[i], ARCHIVED, clock)
    IN  Apply("archive", i, r, r.reason, ARCHIVED, 0)

\* xEntity.restore: refuses unless self.state reads ARCHIVED
restore(e, now, xc) ==
    IF facade_property(xc, "state", e.metadata.state, "None") # ARCHIVED
    THEN [err |-> "StateError", reason |-> "Can only restore from archived state",
          e |-> e]
    ELSE transition_to(e, DRAFT, now)

Restore(i) ==
    LET r == restore(ents[i], clock, xEntityClass)
    IN  Apply("restore", i, r, r.reason, DRAFT, 0)

\* xEntity.set(path, value)
Set(i, path, value) ==
    Apply("set", i, set_(ents[i], path, value, clock), "", "", 1)

\* xEntity.delete(path)
Delete(i, path) ==
    Apply("delete", i, delete_(ents[i], path, clock), "", "", 1)

\* xEntity.update(mapping)
Update(i, updates) ==
    Apply("update", i, update_(ents[i], updates, clock), "", "", Len(updates))

\* e.<field> = value
AccessorSet(i, f, v) ==
    ApplyWith("accessor_set", i, accessor_set(ents[i], f, v), "", f, 1,
              [NoArgs EXCEPT !.param = v])

\* xEntity.optimize_for_access / optimize_for_validation
OptimizeForAccess(i) ==
    Apply("optimize_for_access", i, [err |-> "ok", e |-> cache_schema(ents[i])],
          "", "", 0)

\* aEntity._optimize_memory: clears the caches of the entity (the xData has
\* nothing to compact)
optimize_memory(e) == clear_cache(e)

\* xEntity.optimize_memory()
OptimizeMemory(i) ==
    Apply("optimize_memory", i, [err |-> "ok", e |-> optimize_memory(ents[i])],
          "", "", 0)

\* aEntity._register_action(action)
RegisterAction(i, action) ==
    ApplyWith("register_action", i,
              [err |-> "ok", e |-> register_action(ents[i], action)],
              "", "", 0, [NoArgs EXCEPT !.action = action])

\* xEntity.execute_action(name, **kwargs) by a caller holding roles: last.n
\* counts the invocations of the body
ExecuteAction(i, name, roles, param) ==
    LET r == execute_action(ents[i], name, roles, param, clock)
    IN  ApplyWith("execute_action", i, r, r.reason, name, r.invoked,
                  [NoArgs EXCEPT !.roles = roles, !.param = param])

\* aEntity._from_native(snapshot) on an entity that exists
FromNative(i, snap) ==
    /\ UsesFreshId(snap) => nextId <= MaxIds
    /\ snap.has_metadata => snap.metadata.version <= MaxVersion
    /\ clock' \in ReadsKept(UsesNow(snap))
    /\ LET e2 == from_dict(ents[i], snap, nextId, clock, clock')
       IN  /\ ents' = [ents EXCEPT ![i] = e2]
           /\ hist' = [hist EXCEPT ![i] =
                          HistAfter(@, "from_native", "ok", ents[i], e2)]
    /\ nextId' = IF UsesFreshId(snap) THEN nextId + 1 ELSE nextId
    /\ last' = Call("from_native", i, "ok", "", "", 0)
    /\ UNCHANGED cacheVars
    /\ UNCHANGED classVars
    /\ UNCHANGED threadVars
    /\ UNCHANGED singletonVars
    /\ args' = NoArgs

\* xEntity.from_dict(snapshot, schema) of a class with the given strategy
FromDict(snap, hasSchema, strategy) ==
    /\ Len(ents) < MaxEnts
    /\ KeepsFreshId(snap) => nextId <= MaxIds
    /\ snap.has_metadata => snap.metadata.version <= MaxVersion
    /\ clock' \in ReadsKept(KeepsNow(snap))
    /\ ents' = Append(ents, factory_from_dict(snap, hasSchema, strategy, nextId, clock,
                                              clock'))
    /\ hist' = Append(hist, NoHistory)
    /\ nextId' = IF KeepsFreshId(snap) THEN nextId + 1 ELSE nextId
    /\ last' = Call("from_dict", Len(ents) + 1, "ok", "", "", 0)
    /\ UNCHANGED cacheVars
    /\ UNCHANGED classVars
    /\ UNCHANGED threadVars
    /\ UNCHANGED singletonVars
    /\ args' = NoArgs

\* xEntity.copy(): the copy is entity Len(ents) + 1, last.n names the source;
\* the copied list and dict are new objects
Copy(i) ==
    /\ Len(ents) < MaxEnts
    /\ nextId <= MaxIds
    /\ clock' \in ReadsKept(KeepsNow(to_dict(ents[i])))
    /\ ents' = Append(ents, copy(ents[i], nextId, clock, clock', xEntityClass))
    /\ hist' = Append(hist, NoHistory)
    /\ nextId' = nextId + 1
    /\ last' = Call("copy", Len(ents) + 1, "ok", "", "", i)
    /\ UNCHANGED cacheVars
    /\ UNCHANGED classVars
    /\ UNCHANGED threadVars
    /\ UNCHANGED singletonVars
    /\ args' = NoArgs

\* a write to the objects of entity i reaches every entity: hist follows
WriteObjects(op, i, ents2) ==
    /\ ents' = ents2
    /\ hist' = [j \in DOMAIN hist |->
                  HistAfter(hist[j], op, "ok", ents[j], ents2[j])]
    /\ last' = Call(op, i, "ok", "", "", 0)
    /\ UNCHANGED <<clock, nextId>>
    /\ UNCHANGED cacheVars
    /\ UNCHANGED classVars
    /\ UNCHANGED threadVars
    /\ UNCHANGED singletonVars
    /\ args' = NoArgs

\* e._internal._metadata.tags.append(t)
AddTag(i, t) ==
    LET l == ents[i].metadata.tags
    IN  /\ Len(l.items) < MaxTags
        /\ WriteObjects("add_tag", i,
              [j \in DOMAIN ents |->
                 IF ents[j].metadata.tags.ref = l.ref
                 THEN [ents[j] EXCEPT !.metadata.tags.items = Append(@, t)]
                 ELSE ents[j]])

\* the refs of the nested objects the entities hold
NestedRefs ==
    {ents[j].metadata.metadata.map[k].ref : j \in DOMAIN ents, k \in MetaKeys}

\* e._internal._metadata.metadata[k] = {"v": 0}, a new nested object
SetMeta(i, k) ==
    LET d == ents[i].metadata.metadata
        ref == 1 + CHOOSE m \in NestedRefs \cup {0} :
                      \A x \in NestedRefs : x <= m
    IN  /\ d.map[k] = NoNested
        /\ WriteObjects("set_meta", i,
              [j \in DOMAIN ents |->
                 IF ents[j].metadata.metadata.ref = d.ref
                 THEN [ents[j] EXCEPT !.metadata.metadata.map[k] =
                                          [ref |-> ref, val |-> 0]]
                 ELSE ents[j]])

\* e._internal._metadata.metadata[k]["v"] = v, a write into the nested object
MutateNested(i, k, v) ==
    LET o == ents[i].metadata.metadata.map[k]
    IN  /\ o # NoNested
        /\ o.val # v
        /\ WriteObjects("mutate_nested", i,
              [j \in DOMAIN ents |->
                 [ents[j] EXCEPT !.metadata.metadata.map =
                    [k2 \in MetaKeys |->
                       IF @[k2].ref = o.ref THEN [@[k2] EXCEPT !.val = v]
                       ELSE @[k2]]]])

\* hash(e): last.n is the value returned
Hash(i) ==
    LET r == entity_hash(ents[i], xEntityClass)
    IN  /\ ents' = [ents EXCEPT ![i] = r.e]
        /\ hist' = [hist EXCEPT ![i].hashes = @ \cup {r.value}]
        /\ last' = Call("hash", i, "ok", "", "", r.value)
        /\ UNCHANGED <<clock, nextId>>
        /\ UNCHANGED cacheVars
        /\ UNCHANGED classVars
        /\ UNCHANGED threadVars
        /\ UNCHANGED singletonVars
        /\ args' = NoArgs

\* e == other, where other is entity j, or an object that is no xEntity
\* when j = 0: last.n is j
Eq(i, j) ==
    LET other == IF j = 0 THEN [is_entity |-> FALSE, id |-> 0]
                 ELSE [is_entity |-> TRUE, id |-> ents[j].metadata.id]
    IN  /\ last' = Call("eq", i, IF entity_eq(ents[i], other, xEntityClass)
                                   THEN "True" ELSE "False",
                       "", "", j)
        /\ UNCHANGED <<ents, hist, clock, nextId>>
        /\ UNCHANGED cacheVars
        /\ UNCHANGED classVars
        /\ UNCHANGED threadVars
        /\ UNCHANGED singletonVars
        /\ args' = NoArgs

\* calls made on the cache so far that count against MaxCacheOps
CacheOps == Len(touched) + entity_cache.miss_count

\* xEntityCache.put(key, value): last.idx is the key, last.n the value
CachePut(key, value) ==
    /\ CacheOps < MaxCacheOps
    /\ entity_cache' = put_impl(entity_cache, key, value)
    /\ touched' = Append(touched, key)
    /\ last' = Call("put", key, "ok", "", "", value)
    /\ UNCHANGED <<ents, hist, clock, nextId>>
    /\ UNCHANGED classVars
    /\ UNCHANGED threadVars
    /\ UNCHANGED singletonVars
    /\ args' = NoArgs

\* xEntityCache.get(key): last.idx is the key, last.n the value returned
CacheGet(key) ==
    LET r == get_impl(entity_cache, key)
    IN  /\ CacheOps < MaxCacheOps
        /\ entity_cache' = r.c
        /\ touched' = IF CacheHas(entity_cache, key)
                      THEN Append(touched, key) ELSE touched
        /\ last' = Call("get", key, IF CacheHas(entity_cache, key) THEN "hit" ELSE "miss",
                        "", "", r.value)
        /\ UNCHANGED <<ents, hist, clock, nextId>>
        /\ UNCHANGED classVars
        /\ UNCHANGED threadVars
        /\ UNCHANGED singletonVars
        /\ args' = NoArgs

\* xEntityCache.clear() (also through xEntity.clear_caches)
CacheClear ==
    /\ entity_cache' = cache_clear(entity_cache)
    /\ last' = Call("clear", 0, "ok", "", "", 0)
    /\ UNCHANGED <<ents, hist, clock, nextId, touched>>
    /\ UNCHANGED classVars
    /\ UNCHANGED threadVars
    /\ UNCHANGED singletonVars
    /\ args' = NoArgs

\* xEntity.clear_caches(): the static method clears the shared entity
\* cache and touches no entity
ClearCaches ==
    /\ entity_cache' = cache_clear(entity_cache)
    /\ last' = Call("clear_caches", 0, "ok", "", "", 0)
    /\ UNCHANGED <<ents, hist, clock, nextId, touched>>
    /\ UNCHANGED classVars
    /\ UNCHANGED threadVars
    /\ UNCHANGED singletonVars
    /\ args' = NoArgs

\* set_performance_mode(mode) and its use_*_mode shorthands
SetPerformanceMode(mode) ==
    /\ config_manager' = [config_manager EXCEPT !.performance_mode = mode]
    /\ last' = Call("set_performance_mode", 0, "ok", "", mode, 0)
    /\ args' = NoArgs
    /\ UNCHANGED <<ents, hist, clock, nextId, klass, xEntityClass, converts, objs>>
    /\ UNCHANGED cacheVars
    /\ UNCHANGED threadVars
    /\ UNCHANGED singletonVars

\* the numbers of creations that the configuration manager has counted
\* when the class under study is declared: the one of xEntity, or more
InstanceBases == {1, auto_instance_threshold - 1, auto_instance_threshold}

\* the class statement of the class under study: its metaclass synthesizes
\* the class; last.target names the metaclass, last.n the number of fields
DefineClass(body) ==
    /\ klass.name \in {"", "UserEntity"}
    /\ LET r == class_statement(body, config_manager, xEntityClass, converts)
       IN  /\ klass' = r.klass
           /\ config_manager' = r.cm
    /\ last' = Call("class", 0, "ok", "",
                    metaclass_of(body, config_manager, xEntityClass),
                    body.fields)
    /\ args' = [NoArgs EXCEPT !.body = body]
    /\ UNCHANGED <<ents, hist, clock, nextId, xEntityClass, converts, objs>>
    /\ UNCHANGED cacheVars
    /\ UNCHANGED threadVars
    /\ UNCHANGED singletonVars

\* MaxObjs bounds the instances of classes without the xEntity base
MaxObjs == 1

\* o = C() for a class written without the xEntity base: the instance is
\* object Len(objs) + 1
NewObject ==
    /\ klass # NoClass
    /\ klass.base = "object"
    /\ Len(objs) < MaxObjs
    /\ objs' = Append(objs, new_object(klass))
    /\ last' = Call("new_object", Len(objs) + 1, "ok", "", "", 0)
    /\ args' = NoArgs
    /\ UNCHANGED <<ents, hist, clock, nextId, config_manager, klass, xEntityClass,
                   converts>>
    /\ UNCHANGED cacheVars
    /\ UNCHANGED threadVars
    /\ UNCHANGED singletonVars

\* o.<field> = value on object o: last.idx is o, last.target the field
ObjectSet(o, f, v) ==
    /\ o \in DOMAIN objs
    /\ LET r == accessor_set(objs[o], f, v)
       IN  /\ objs' = [objs EXCEPT ![o] = r.e]
           /\ last' = Call("object_set", o, r.err, "", f, 1)
    /\ args' = [NoArgs EXCEPT !.param = v]
    /\ UNCHANGED <<ents, hist, clock, nextId, config_manager, klass, xEntityClass,
                   converts>>
    /\ UNCHANGED cacheVars
    /\ UNCHANGED threadVars
    /\ UNCHANGED singletonVars

\* U.from_data(d) of a subclass of xEntity: the instance is entity
\* Len(ents) + 1
NewInstance(d) ==
    /\ klass # NoClass
    /\ klass.base = "xEntity"
    /\ Len(ents) < MaxEnts
    /\ nextId <= MaxIds
    /\ clock' \in Reads
    /\ ents' = Append(ents, new_instance(klass, nextId, d, clock, clock'))
    /\ hist' = Append(hist, NoHistory)
    /\ nextId' = nextId + 1
    /\ last' = Call("new_instance", Len(ents) + 1, "ok", "", "", 0)
    /\ args' = NoArgs
    /\ UNCHANGED cacheVars
    /\ UNCHANGED classVars
    /\ UNCHANGED threadVars
    /\ UNCHANGED singletonVars

\* A step of a thread: nothing outside the thread's record, the objects it
\* works on and the history changes
ThreadFrame ==
    /\ UNCHANGED <<hist, clock, nextId, touched, args>>
    /\ UNCHANGED classVars

Goto(t, pc) == [threads EXCEPT ![t].pc = pc]

\* the calls on the cache that threads have entered
CallsStarted ==
    completed.get + completed.put + completed.get_entity_cache
    + completed.clear_caches + Cardinality({t \in Threads : threads[t].pc # "idle"})

\* a thread enters aEntity._set(ThreadField(t), t) on entity 1: no lock is
\* taken (the RLock made in __init__ is never acquired); self._data.set
SetData(t) ==
    /\ threads[t].pc = "idle"
    /\ threads[t].calls = 0
    /\ ents' = [ents EXCEPT ![1].data = data_set(@, ThreadField(t), t)]
    /\ threads' = [threads EXCEPT ![t].pc = "load_version", ![t].op = "set"]
    /\ UNCHANGED <<last, entity_cache, lock, completed, serial>>
    /\ UNCHANGED singletonVars
    /\ ThreadFrame

\* update_version, self.version += 1: the attribute is read ...
LoadVersion(t) ==
    /\ threads[t].pc = "load_version"
    /\ threads' = [threads EXCEPT ![t].pc = "store_version",
                                  ![t].local = ents[1].metadata.version]
    /\ UNCHANGED <<ents, last, entity_cache, lock, completed, serial>>
    /\ UNCHANGED singletonVars
    /\ ThreadFrame

\* ... and the sum is stored
StoreVersion(t) ==
    /\ threads[t].pc = "store_version"
    /\ ents' = [ents EXCEPT ![1].metadata.version = threads[t].local + 1]
    /\ threads' = Goto(t, "load_now")
    /\ UNCHANGED <<last, entity_cache, lock, completed, serial>>
    /\ UNCHANGED singletonVars
    /\ ThreadFrame

\* update_version, self.updated_at = datetime.now(): the clock is read ...
LoadNow(t) ==
    /\ threads[t].pc = "load_now"
    /\ threads' = [threads EXCEPT ![t].pc = "store_updated_at",
                                  ![t].local = clock]
    /\ UNCHANGED <<ents, last, entity_cache, lock, completed, serial>>
    /\ UNCHANGED singletonVars
    /\ ThreadFrame

\* ... and the value read is stored
StoreUpdatedAt(t) ==
    /\ threads[t].pc = "store_updated_at"
    /\ ents' = [ents EXCEPT ![1].metadata.updated_at = threads[t].local]
    /\ threads' = Goto(t, "clear_cache")
    /\ UNCHANGED <<last, entity_cache, lock, completed, serial>>
    /\ UNCHANGED singletonVars
    /\ ThreadFrame

\* self._clear_cache(), and _set returns
ClearCacheAndReturn(t) ==
    /\ threads[t].pc = "clear_cache"
    /\ ents' = [ents EXCEPT ![1] = clear_cache(@)]
    /\ threads' = [threads EXCEPT ![t].pc = "idle", ![t].calls = @ + 1]
    /\ completed' = [completed EXCEPT !.set = @ + 1]
    /\ last' = Call("set", 1, "ok", "", ThreadField(t), t)
    /\ UNCHANGED <<entity_cache, lock, serial>>
    /\ UNCHANGED singletonVars
    /\ ThreadFrame

\* a thread calls get(key) or put(key, value) on the xEntityCache that
\* get_entity_cache() returns
CallCache(t, op, key, value) ==
    /\ threads[t].pc = "idle"
    /\ entity_cache_instance # 0
    /\ CallsStarted < MaxCalls
    /\ threads' = [threads EXCEPT ![t].pc = "acquire", ![t].op = op,
                                  ![t].key = key, ![t].value = value,
                                  ![t].cache = entity_cache_instance]
    /\ UNCHANGED <<ents, last, entity_cache, lock, completed, serial>>
    /\ UNCHANGED singletonVars
    /\ ThreadFrame

\* with self._lock: of get, put and clear; the thread waits while another
\* thread owns the lock of the object
Acquire(t) ==
    LET th == threads[t]
    IN  /\ th.pc = "acquire"
        /\ rlock_admits(LockOf(th.cache), t)
        /\ SetObject(th.cache, CacheOf(th.cache), t)
        /\ threads' = Goto(t, IF th.op = "get" THEN "contains"
                              ELSE IF th.op = "put" THEN "assign" ELSE "clear")
        /\ UNCHANGED <<ents, last, completed, serial>>
        /\ UNCHANGED bindingVars
        /\ ThreadFrame

\* _get_impl, if key in self._cache
Contains(t) ==
    /\ threads[t].pc = "contains"
    /\ threads' = [threads EXCEPT ![t].pc = "load_count",
                                  ![t].hit = CacheHas(CacheOf(threads[t].cache),
                                                      threads[t].key)]
    /\ UNCHANGED <<ents, last, entity_cache, lock, completed, serial>>
    /\ UNCHANGED singletonVars
    /\ ThreadFrame

\* self._hit_count += 1 or self._miss_count += 1: the counter is read ...
LoadCount(t) ==
    /\ threads[t].pc = "load_count"
    /\ threads' = [threads EXCEPT ![t].pc = "store_count",
                                  ![t].local = IF threads[t].hit
                                               THEN CacheOf(threads[t].cache).hit_count
                                               ELSE CacheOf(threads[t].cache).miss_count]
    /\ UNCHANGED <<ents, last, entity_cache, lock, completed, serial>>
    /\ UNCHANGED singletonVars
    /\ ThreadFrame

\* ... and the sum is stored; a miss returns None
StoreCount(t) ==
    LET th == threads[t]
        c  == CacheOf(th.cache)
    IN  /\ th.pc = "store_count"
        /\ SetObject(th.cache,
                     IF th.hit THEN [c EXCEPT !.hit_count = th.local + 1]
                     ELSE [c EXCEPT !.miss_count = th.local + 1],
                     LockOf(th.cache))
        /\ threads' = [threads EXCEPT ![t].pc = IF th.hit THEN "move_to_end"
                                                ELSE "release",
                                      ![t].value = NoValue]
        /\ UNCHANGED <<ents, last, completed, serial>>
        /\ UNCHANGED bindingVars
        /\ ThreadFrame

\* _put_impl, self._cache[key] = value
Assign(t) ==
    LET th == threads[t]
        c  == CacheOf(th.cache)
    IN  /\ th.pc = "assign"
        /\ SetObject(th.cache,
                     [c EXCEPT !.entries = CacheAssign(@, th.key, th.value)],
                     LockOf(th.cache))
        /\ threads' = Goto(t, "move_to_end")
        /\ UNCHANGED <<ents, last, completed, serial>>
        /\ UNCHANGED bindingVars
        /\ ThreadFrame

\* self._cache.move_to_end(key); get then reads self._cache[key]: of a key
\* that is gone both raise KeyError and the call ends
MoveToEnd(t) ==
    LET th == threads[t]
        c  == CacheOf(th.cache)
    IN  /\ th.pc = "move_to_end"
        /\ IF CacheHas(c, th.key)
           THEN /\ SetObject(th.cache,
                             [c EXCEPT !.entries = move_to_end(@, th.key)],
                             LockOf(th.cache))
                /\ threads' = [threads EXCEPT
                                  ![t].pc = IF th.op = "get" THEN "release"
                                            ELSE "evict",
                                  ![t].value = IF th.op = "get"
                                               THEN CacheValue(c, th.key)
                                               ELSE @]
           ELSE /\ UNCHANGED <<entity_cache, lock, displaced>>
                /\ threads' = [threads EXCEPT ![t].pc = "release",
                                              ![t].op = "KeyError"]
        /\ UNCHANGED <<ents, last, completed, serial>>
        /\ UNCHANGED bindingVars
        /\ ThreadFrame

\* if len(self._cache) > self._max_size: self._cache.popitem(last=False)
Evict(t) ==
    LET th == threads[t]
        c  == CacheOf(th.cache)
    IN  /\ th.pc = "evict"
        /\ SetObject(th.cache,
                     IF Len(c.entries) > c.max_size
                     THEN [c EXCEPT !.entries = Tail(@)] ELSE c,
                     LockOf(th.cache))
        /\ threads' = Goto(t, "release")
        /\ UNCHANGED <<ents, last, completed, serial>>
        /\ UNCHANGED bindingVars
        /\ ThreadFrame

\* xEntityCache.clear, self._cache.clear() inside the with block
ClearEntries(t) ==
    LET th == threads[t]
    IN  /\ th.pc = "clear"
        /\ SetObject(th.cache, cache_clear(CacheOf(th.cache)), LockOf(th.cache))
        /\ threads' = Goto(t, "release")
        /\ UNCHANGED <<ents, last, completed, serial>>
        /\ UNCHANGED bindingVars
        /\ ThreadFrame

\* the with block ends and the call returns: last.idx is the key, last.n the
\* value returned or put, of clear_caches() the object cleared; serial
\* follows the calls on the object behind get_entity_cache()
Release(t) ==
    LET th == threads[t]
    IN  /\ th.pc = "release"
        /\ SetObject(th.cache, CacheOf(th.cache), 0)
        /\ threads' = [threads EXCEPT ![t].pc = "idle", ![t].calls = @ + 1]
        /\ completed' = IF th.op \in {"get", "put", "clear_caches"}
                        THEN [completed EXCEPT ![th.op] = @ + 1] ELSE completed
        /\ serial' = IF th.cache # entity_cache_instance THEN serial
                     ELSE IF th.op = "put" THEN put_impl(serial, th.key, th.value)
                     ELSE IF th.op = "clear_caches" THEN cache_clear(serial)
                     ELSE get_impl(serial, th.key).c
        /\ last' = IF th.op = "clear_caches"
                   THEN Call(th.op, 0, "ok", "", "", th.cache)
                   ELSE Call(th.op, th.key,
                             IF th.op = "put" THEN "ok"
                             ELSE IF th.op = "KeyError" THEN "KeyError"
                             ELSE IF th.hit THEN "hit" ELSE "miss",
                             "", "", th.value)
        /\ UNCHANGED ents
        /\ UNCHANGED bindingVars
        /\ ThreadFrame

\* a thread calls get_entity_cache(), alone or as the first statement of
\* xEntity.clear_caches()
CallGetEntityCache(t, op) ==
    /\ threads[t].pc = "idle"
    /\ CallsStarted < MaxCalls
    /\ threads' = [threads EXCEPT ![t].pc = "test_none", ![t].op = op]
    /\ UNCHANGED <<ents, last, entity_cache>>
    /\ UNCHANGED singletonVars
    /\ UNCHANGED threadVarsButThreads
    /\ ThreadFrame

\* if _entity_cache_instance is None
TestNone(t) ==
    /\ threads[t].pc = "test_none"
    /\ threads' = Goto(t, IF entity_cache_instance = 0 THEN "construct" ELSE "return")
    /\ UNCHANGED <<ents, last, entity_cache>>
    /\ UNCHANGED singletonVars
    /\ UNCHANGED threadVarsButThreads
    /\ ThreadFrame

\* xEntityCache(get_config().entity_cache_size): a new object
ConstructCache(t) ==
    /\ threads[t].pc = "construct"
    /\ created' = created + 1
    /\ threads' = [threads EXCEPT ![t].pc = "bind", ![t].local = created + 1]
    /\ UNCHANGED <<ents, last, entity_cache, entity_cache_instance, displaced>>
    /\ UNCHANGED threadVarsButThreads
    /\ ThreadFrame

\* _entity_cache_instance = <the new object>: the object that the global
\* referred to stays with the threads that hold it
Bind(t) ==
    /\ threads[t].pc = "bind"
    /\ entity_cache_instance' = threads[t].local
    /\ entity_cache' = NewCache(entity_cache_size)
    /\ lock' = 0
    /\ serial' = NewCache(entity_cache_size)
    /\ displaced' = IF entity_cache_instance = 0 THEN displaced
                    ELSE (entity_cache_instance :> [c |-> entity_cache, lock |-> lock])
                         @@ displaced
    /\ threads' = Goto(t, "return")
    /\ UNCHANGED <<ents, last, created, completed>>
    /\ ThreadFrame

\* return _entity_cache_instance: last.n is the object returned;
\* clear_caches() goes on to call clear() on it
Return(t) ==
    LET th == threads[t]
    IN  /\ th.pc = "return"
        /\ IF th.op = "clear_caches"
           THEN /\ threads' = [threads EXCEPT
                                  ![t].pc = "acquire",
                                  ![t].seen = @ \cup {entity_cache_instance},
                                  ![t].cache = entity_cache_instance]
                /\ UNCHANGED <<completed, last>>
           ELSE /\ threads' = [threads EXCEPT
                                  ![t].pc = "idle", ![t].calls = @ + 1,
                                  ![t].seen = @ \cup {entity_cache_instance}]
                /\ completed' = [completed EXCEPT ![th.op] = @ + 1]
                /\ last' = Call(th.op, 0, "ok", "", "", entity_cache_instance)
        /\ UNCHANGED <<ents, entity_cache, lock, serial>>
        /\ UNCHANGED singletonVars
        /\ ThreadFrame

\* the operations, each over all its inputs
AnyTransitionTo   == \E i \in DOMAIN ents, target \in Targets : TransitionTo(i, target)
AnyToValidated    == \E i \in DOMAIN ents : ToValidated(i)
AnyCommit         == \E i \in DOMAIN ents : Commit(i)
AnyArchive        == \E i \in DOMAIN ents : Archive(i)
AnyRestore        == \E i \in DOMAIN ents : Restore(i)
AnySet            == \E i \in DOMAIN ents, p \in Paths \cup {BadPath}, v \in Values :
                        Set(i, p, v)
AnyDelete         == \E i \in DOMAIN ents, p \in Paths \cup {BadPath} : Delete(i, p)
AnyUpdate         == \E i \in DOMAIN ents, m \in Mappings : Update(i, m)
AnyAccessorSet    == \E i \in DOMAIN ents, f \in Paths, v \in Values :
                        AccessorSet(i, f, v)
AnyOptimize       == \E i \in DOMAIN ents : OptimizeForAccess(i)
AnyRegisterAction == \E i \in DOMAIN ents, action \in ActionObjects :
                        RegisterAction(i, action)
AnyExecuteAction  == \E i \in DOMAIN ents, name \in ActionNames \cup {MissingAction},
                        roles \in CallerRoleSets, param \in Values \cup {Absent} :
                        ExecuteAction(i, name, roles, param)
AnyFromNative     == \E i \in DOMAIN ents, snap \in Snapshots : FromNative(i, snap)
AnyCopy           == \E i \in DOMAIN ents : Copy(i)
AnyHash           == \E i \in DOMAIN ents : Hash(i)
AnyEq             == \E i \in DOMAIN ents, j \in DOMAIN ents \cup {0} : Eq(i, j)
AnyCachePut       == \E k \in CacheKeys, v \in CacheValues : CachePut(k, v)
AnyCacheGet       == \E k \in CacheKeys : CacheGet(k)
AnyAddTag         == \E i \in DOMAIN ents, t \in Tags : AddTag(i, t)
AnySetMeta        == \E i \in DOMAIN ents, k \in MetaKeys : SetMeta(i, k)
AnyMutateNested   == \E i \in DOMAIN ents, k \in MetaKeys, v \in Values :
                        MutateNested(i, k, v)
AnyFromDict       == \E snap \in Snapshots, hasSchema \in BOOLEAN :
                        FromDict(snap, hasSchema, DirectFields)
AnySetPerformanceMode == \E mode \in PerformanceMode : SetPerformanceMode(mode)
AnyDefineClass    == \E body \in ClassBodies : DefineClass(body)
AnyNewInstance    == \E d \in InitData : NewInstance(d)
AnyOptimizeMemory == \E i \in DOMAIN ents : OptimizeMemory(i)
AnyObjectSet      == \E o \in DOMAIN objs, f \in Paths, v \in Values :
                        ObjectSet(o, f, v)

Next ==
    \/ Tick
    \/ AnyTransitionTo
    \/ AnyToValidated
    \/ AnyCommit
    \/ AnyArchive
    \/ AnyRestore
    \/ AnySet
    \/ AnyDelete
    \/ AnyUpdate
    \/ AnyAccessorSet
    \/ AnyOptimize
    \/ AnyRegisterAction
    \/ AnyExecuteAction
    \/ AnyFromNative
    \/ AnyCopy
    \/ AnyFromDict
    \/ AnyAddTag
    \/ AnySetMeta
    \/ AnyMutateNested
    \/ AnyHash
    \/ AnyEq
    \/ AnyCachePut
    \/ AnyCacheGet
    \/ CacheClear
    \/ AnySetPerformanceMode
    \/ AnyDefineClass
    \/ AnyNewInstance
    \/ AnyOptimizeMemory
    \/ NewObject
    \/ AnyObjectSet

Spec == Init /\ [][Next]_vars

----------------------------------------------------------------------------
\* One entity under its lifecycle and field mutations

NextLifecycle ==
    \/ Tick
    \/ AnyTransitionTo
    \/ AnyToValidated
    \/ AnyCommit
    \/ AnyArchive
    \/ AnyRestore
    \/ AnySet
    \/ AnyDelete
    \/ AnyUpdate
    \/ AnyOptimize

SpecLifecycle == Init /\ [][NextLifecycle]_vars

\* One entity under mutations, transitions, action execution and snapshot
\* loads; the field mutations are those of the field "age"

SetAge      == \E i \in DOMAIN ents, v \in Values : Set(i, "age", v)
DeleteAge   == \E i \in DOMAIN ents : Delete(i, "age")
UpdateAge   == \E i \in DOMAIN ents : Update(i, << <<"age", 1>> >>)
RegisterTouch == \E i \in DOMAIN ents :
                    RegisterAction(i, function_action("touch", {AnyRole}))
ExecuteTouch  == \E i \in DOMAIN ents, name \in {"touch", MissingAction} :
                    ExecuteAction(i, name, {}, Absent)

NextSnapshot ==
    \/ Tick
    \/ AnyToValidated
    \/ AnyCommit
    \/ AnyArchive
    \/ AnyRestore
    \/ SetAge
    \/ DeleteAge
    \/ UpdateAge
    \/ RegisterTouch
    \/ ExecuteTouch
    \/ AnyFromNative

SpecSnapshot == Init /\ [][NextSnapshot]_vars

\* One entity of a class with declared fields, written through its
\* accessors and through the facade

SetField == \E i \in DOMAIN ents, p \in Paths, v \in Values : Set(i, p, v)

NextAccessor ==
    \/ Tick
    \/ AnyAccessorSet
    \/ SetField
    \/ AnyOptimize
    \/ AnyToValidated

SpecAccessor == Init /\ [][NextAccessor]_vars

\* Entities and their copies

SetAgeValid == \E i \in DOMAIN ents : Set(i, "age", 1)
ReloadExport == \E i \in DOMAIN ents :
                   FromDict(to_dict(ents[i]), ents[i].hasSchema, ents[i].strategy)

NextCopy ==
    \/ Tick
    \/ AnyToValidated
    \/ AnyArchive
    \/ SetAgeValid
    \/ AnyCopy
    \/ ReloadExport

SpecCopy == Init /\ [][NextCopy]_vars

\* Entities and their copies, with writes to field data, tags and metadata

NextCopyMeta ==
    \/ SetAgeValid
    \/ AnyAddTag
    \/ AnySetMeta
    \/ AnyMutateNested
    \/ AnyCopy

SpecCopyMeta == Init /\ [][NextCopyMeta]_vars

\* Facades compared and hashed while snapshots are loaded

LoadHand    == \E i \in DOMAIN ents, snap \in HandSnaps : FromNative(i, snap)
NewFromHand == \E snap \in HandSnaps : FromDict(snap, FALSE, DirectFields)

NextIdentity ==
    \/ AnyHash
    \/ AnyEq
    \/ LoadHand
    \/ NewFromHand
    \/ ReloadExport

SpecIdentity == Init /\ [][NextIdentity]_vars

\* An entity cache of any max_size under put, get and clear

InitCache ==
    /\ ents = <<NewEntity(1, "entity", [p \in Paths |-> Absent], FALSE, DirectFields, 0, 0)>>
    /\ hist = <<[pure |-> TRUE, path |-> <<DRAFT>>, hashes |-> {}]>>
    /\ clock = 0
    /\ nextId = 2
    /\ last = Call("new", 1, "ok", "", "", 0)
    /\ \E max_size \in (0..MaxSize) \cup {entity_cache_size} :
          entity_cache = NewCache(max_size)
    /\ touched = <<>>
    /\ UserEntityDeclared
    /\ args = NoArgs
    /\ NoThreads
    /\ CacheBound

NextCache ==
    \/ AnyCachePut
    \/ AnyCacheGet
    \/ CacheClear

SpecCache == InitCache /\ [][NextCache]_vars

\* Entities and the entities loaded from their exports

NextRoundTrip ==
    \/ AnyArchive
    \/ SetAgeValid
    \/ AnyAddTag
    \/ AnySetMeta
    \/ ReloadExport

\* UserEntity.from_data(d) without a schema, both clock reads at time 0
InitRoundTrip ==
    /\ clock = 0
    /\ \E d \in InitData :
          ents = <<NewEntity(1, "entity", d, FALSE, DirectFields, 0, 0)>>
    /\ hist = <<[pure |-> TRUE, path |-> <<DRAFT>>, hashes |-> {}]>>
    /\ nextId = 2
    /\ last = Call("new", 1, "ok", "", "", 0)
    /\ entity_cache = NewCache(entity_cache_size)
    /\ touched = <<>>
    /\ UserEntityDeclared
    /\ args = NoArgs
    /\ NoThreads
    /\ CacheBound

SpecRoundTrip == InitRoundTrip /\ [][NextRoundTrip]_vars

\* One entity, the actions registered on it and their execution

\* the actions that callers register: plain callables with and without a
\* roles attribute, decorated methods of both profiles, a callable that
\* raises after its write
SampleActions ==
    { function_action("touch", {AnyRole}),
      function_action("touch", {"admin"}),
      xAction("touch", {"admin"}, "COMMAND", TRUE),
      xAction("peek", {AnyRole}, "COMMAND", FALSE),
      xAction("peek", {"admin"}, "QUERY", TRUE),
      function_action("break", {AnyRole}) }

RegisterSample == \E i \in DOMAIN ents, action \in SampleActions :
                     RegisterAction(i, action)

NextActions ==
    \/ RegisterSample
    \/ AnyExecuteAction

SpecActions == Init /\ [][NextActions]_vars

\* Classes synthesized under the modes of the configuration, their
\* instances and the actions executed on them

InitClass ==
    /\ ents = <<NewEntity(1, "entity", [p \in Paths |-> Absent], FALSE, NoFields, 0, 0)>>
    /\ hist = <<[pure |-> TRUE, path |-> <<DRAFT>>, hashes |-> {}]>>
    /\ clock = 0
    /\ nextId = 2
    /\ last = Call("new", 1, "ok", "", "", 0)
    /\ entity_cache = NewCache(entity_cache_size)
    /\ touched = <<>>
    /\ converts \in BOOLEAN
    /\ \E base \in InstanceBases :
          config_manager = EarlierClasses(import_package(converts).cm, base - 1)
    /\ xEntityClass = import_package(converts).klass
    /\ klass = NoClass
    /\ objs = <<>>
    /\ args = NoArgs
    /\ NoThreads
    /\ CacheBound

ExecuteDeclared == \E i \in DOMAIN ents : ExecuteAction(i, "touch", {"admin"}, Absent)

NextClass ==
    \/ AnySetPerformanceMode
    \/ AnyDefineClass
    \/ AnyNewInstance
    \/ ExecuteDeclared
    \/ NewObject
    \/ AnyObjectSet

SpecClass == InitClass /\ [][NextClass]_vars

\* Entities with a schema whose schema snapshot is cached, then mutated,
\* moved through the lifecycle and followed by clear_caches(), next to
\* entries of the shared entity cache

NewWithSchema == \E snap \in {s \in HandSnaps : s.has_data} : FromDict(snap, TRUE, DirectFields)
PutSample     == CachePut(1, 1)

NextDerived ==
    \/ AnyOptimize
    \/ SetAgeValid
    \/ AnyToValidated
    \/ NewWithSchema
    \/ PutSample
    \/ ClearCaches
    \/ AnyOptimizeMemory

SpecDerived == Init /\ [][NextDerived]_vars

\* Threads that each call set once on one entity

InitRace ==
    /\ ents = <<NewEntity(1, "entity", [p \in Paths |-> Absent], FALSE, DirectFields, 0, 0)>>
    /\ hist = <<[pure |-> TRUE, path |-> <<DRAFT>>, hashes |-> {}]>>
    /\ clock = 0
    /\ nextId = 2
    /\ last = Call("new", 1, "ok", "", "", 0)
    /\ entity_cache = NewCache(entity_cache_size)
    /\ touched = <<>>
    /\ UserEntityDeclared
    /\ args = NoArgs
    /\ NoThreads
    /\ CacheBound

AnySetData             == \E t \in Threads : SetData(t)
AnyLoadVersion         == \E t \in Threads : LoadVersion(t)
AnyStoreVersion        == \E t \in Threads : StoreVersion(t)
AnyLoadNow             == \E t \in Threads : LoadNow(t)
AnyStoreUpdatedAt      == \E t \in Threads : StoreUpdatedAt(t)
AnyClearCacheAndReturn == \E t \in Threads : ClearCacheAndReturn(t)

NextRace ==
    \/ Tick
    \/ AnySetData
    \/ AnyLoadVersion
    \/ AnyStoreVersion
    \/ AnyLoadNow
    \/ AnyStoreUpdatedAt
    \/ AnyClearCacheAndReturn

SpecRace == InitRace /\ [][NextRace]_vars

\* Threads that call get and put on one cache, and xEntity.clear_caches()

InitLocked ==
    /\ InitCache
    /\ entity_cache.max_size \in 1..MaxSize

ThreadKeys == {1, 2}

AnyCallGet    == \E t \in Threads, k \in ThreadKeys : CallCache(t, "get", k, 0)
AnyCallPut    == \E t \in Threads, k \in ThreadKeys : CallCache(t, "put", k, t)
AnyAcquire    == \E t \in Threads : Acquire(t)
AnyContains   == \E t \in Threads : Contains(t)
AnyLoadCount  == \E t \in Threads : LoadCount(t)
AnyStoreCount == \E t \in Threads : StoreCount(t)
AnyAssign     == \E t \in Threads : Assign(t)
AnyMoveToEnd  == \E t \in Threads : MoveToEnd(t)
AnyEvict      == \E t \in Threads : Evict(t)
AnyRelease    == \E t \in Threads : Release(t)
AnyClearEntries == \E t \in Threads : ClearEntries(t)
AnyCallClearCaches == \E t \in Threads : CallGetEntityCache(t, "clear_caches")
AnyTestNone   == \E t \in Threads : TestNone(t)
AnyReturn     == \E t \in Threads : Return(t)

NextLocked ==
    \/ AnyCallGet
    \/ AnyCallPut
    \/ AnyAcquire
    \/ AnyContains
    \/ AnyLoadCount
    \/ AnyStoreCount
    \/ AnyAssign
    \/ AnyMoveToEnd
    \/ AnyEvict
    \/ AnyRelease
    \/ AnyCallClearCaches
    \/ AnyTestNone
    \/ AnyReturn
    \/ AnyClearEntries

SpecLocked == InitLocked /\ [][NextLocked]_vars

\* Threads that call get_entity_cache() and clear_caches() from the import
\* of the module on, when no facade exists yet

InitSingleton ==
    /\ ents = <<>>
    /\ hist = <<>>
    /\ clock = 0
    /\ nextId = 1
    /\ last = Call("import", 0, "ok", "", "", 0)
    /\ entity_cache = NewCache(entity_cache_size)
    /\ touched = <<>>
    /\ PackageImported
    /\ args = NoArgs
    /\ NoThreads
    /\ entity_cache_instance = 0
    /\ created = 0
    /\ displaced = NoDisplaced

AnyCallGetEntityCache ==
    \E t \in Threads, op \in {"get_entity_cache", "clear_caches"} :
       CallGetEntityCache(t, op)
AnyConstructCache == \E t \in Threads : ConstructCache(t)
AnyBind           == \E t \in Threads : Bind(t)

NextSingleton ==
    \/ AnyCallGetEntityCache
    \/ AnyTestNone
    \/ AnyConstructCache
    \/ AnyBind
    \/ AnyReturn
    \/ AnyAcquire
    \/ AnyClearEntries
    \/ AnyRelease

SpecSingleton == InitSingleton /\ [][NextSingleton]_vars

\* Entities loaded from snapshots that callers write by hand with some of
\* the metadata keys: a created_at alone, a state that is no lifecycle
\* state, a version of 0

PartialSnaps ==
    { [has_metadata |-> TRUE, metadata |-> m,
       has_data |-> FALSE, data |-> to_native([p \in Paths |-> Absent])] :
      m \in { [EmptyMetadata EXCEPT !.created_at = isoformat(1)],
              [EmptyMetadata EXCEPT !.state = BogusState],
              [EmptyMetadata EXCEPT !.version = 0] } }

LoadPartial    == \E i \in DOMAIN ents, snap \in PartialSnaps : FromNative(i, snap)
NewFromPartial == \E snap \in PartialSnaps : FromDict(snap, FALSE, DirectFields)

NextLoad ==
    \/ Tick
    \/ AnyToValidated
    \/ LoadPartial
    \/ NewFromPartial

SpecLoad == Init /\ [][NextLoad]_vars

----------------------------------------------------------------------------
\* Properties

\* the entity a transition call was made on, before the call, and its target
IsTransitionOn(i) == last'.idx = i /\ last'.op \in TransitionOps

\* C1: a transitionTo(target) call is accepted only if (current state,
\* target) is an edge of the transition table; every other call, also with
\* target = current state or a target that is no state, fails with StateError.
C1_OnlyTableEdgesAccepted ==
    [][\A i \in DOMAIN ents :
          IsTransitionOn(i) =>
             LET edge == <<ents[i].metadata.state, last'.target>>
             IN  /\ last'.result = "ok" =>
                       edge \in Edges /\ ents'[i].metadata.state = last'.target
                 /\ edge \notin Edges =>
                       last'.result = "StateError" /\ ents'[i] = ents[i]]_vars

\* a transition to the state the entity is in has been rejected
C1_Witness ==
    /\ last.op \in TransitionOps
    /\ last.result = "StateError"
    /\ last.target = ents[last.idx].metadata.state

\* C2: a transition to VALIDATED never succeeds while the field data fails
\* schema validation: the call raises StateError, with the validation-failed
\* reason when the edge itself is allowed, and the state stays what it was.
C2_NoValidatedOnInvalidData ==
    [][\A i \in DOMAIN ents :
          ( /\ IsTransitionOn(i)
            /\ last'.target = VALIDATED
            /\ ents[i].hasSchema
            /\ ~validate_data(ents[i].data) )
          => /\ last'.result = "StateError"
             /\ ents'[i].metadata.state = ents[i].metadata.state
             /\ <<ents[i].metadata.state, VALIDATED>> \in Edges
                   => last'.reason = "Validation failed"]_vars

\* to_validated has been refused on a DRAFT entity whose data is invalid
C2_Witness ==
    /\ last.op = "to_validated"
    /\ last.result = "StateError"
    /\ last.reason = "Validation failed"
    /\ ents[last.idx].metadata.state = DRAFT
    /\ ents[last.idx].hasSchema
    /\ ~validate_data(ents[last.idx].data)

\* C3: every accepted transition increases version by exactly 1 and never
\* moves updatedAt back, so an entity that has only gone through n accepted
\* transitions since construction is at version 1 + n; after DRAFT,
\* VALIDATED, COMMITTED, ARCHIVED, DRAFT it is in DRAFT at version 5.
C3_PathInv ==
    \A i \in DOMAIN ents :
        hist[i].pure =>
            /\ ents[i].metadata.version = 1 + (Len(hist[i].path) - 1)
            /\ ents[i].metadata.state = hist[i].path[Len(hist[i].path)]
            /\ hist[i].path = <<DRAFT, VALIDATED, COMMITTED, ARCHIVED, DRAFT>>
                  => ents[i].metadata.state = DRAFT /\ ents[i].metadata.version = 5

C3_Step ==
    \A i \in DOMAIN ents :
        IsTransitionOn(i) /\ last'.result = "ok" =>
            /\ ents'[i].metadata.version = ents[i].metadata.version + 1
            /\ ents'[i].metadata.updated_at >= ents[i].metadata.updated_at

C3_VersionCountsTransitions == []C3_PathInv /\ [][C3_Step]_vars

\* to_validated, commit, archive, restore have run on a new entity
C3_Witness ==
    /\ last.op = "restore"
    /\ last.result = "ok"
    /\ hist[last.idx].pure
    /\ hist[last.idx].path = <<DRAFT, VALIDATED, COMMITTED, ARCHIVED, DRAFT>>
    /\ ents[last.idx].metadata.version = 5

\* C4: a transition call that fails with StateError leaves state, version,
\* updatedAt and field data as they were.
C4_FailedTransitionChangesNothing ==
    [][\A i \in DOMAIN ents :
          IsTransitionOn(i) /\ last'.result = "StateError" =>
             /\ ents'[i].metadata.state = ents[i].metadata.state
             /\ ents'[i].metadata.version = ents[i].metadata.version
             /\ ents'[i].metadata.updated_at = ents[i].metadata.updated_at
             /\ ents'[i].data = ents[i].data]_vars

\* restore has been refused on an entity that is not ARCHIVED, after time
\* has passed since its last update
C4_Witness ==
    /\ last.op = "restore"
    /\ last.result = "StateError"
    /\ ents[last.idx].metadata.state # ARCHIVED
    /\ ents[last.idx].metadata.updated_at < clock

\* C5 (as claimed): no operation on an entity, snapshot loads included,
\* decreases its version or moves its updatedAt back.
C5_VersionNeverDecreases ==
    [][\A i \in DOMAIN ents :
          /\ ents'[i].metadata.version >= ents[i].metadata.version
          /\ ents'[i].metadata.updated_at >= ents[i].metadata.updated_at]_vars

\* C6: a successful set or delete increases version by exactly 1 and sets
\* updatedAt to the current time; a successful update of n pairs increases
\* version by exactly n.
C6_MutationBumpsVersion ==
    [][\A i \in DOMAIN ents :
          last'.idx = i /\ last'.result = "ok" =>
             /\ last'.op \in {"set", "delete"} =>
                   /\ ents'[i].metadata.version = ents[i].metadata.version + 1
                   /\ ents'[i].metadata.updated_at = clock'
             /\ last'.op = "update" =>
                   /\ ents'[i].metadata.version = ents[i].metadata.version + last'.n
                   /\ last'.n > 0 => ents'[i].metadata.updated_at = clock']_vars

\* an update of two pairs has succeeded after time has passed
C6_Witness ==
    /\ last.op = "update"
    /\ last.result = "ok"
    /\ last.n = 2
    /\ ents[last.idx].metadata.updated_at > ents[last.idx].metadata.created_at

\* C7: set, delete and update leave the lifecycle state, id, entityType and
\* createdAt of the entity alone (and its schema, actions and accessors).
C7_MutationKeepsStateAndIdentity ==
    [][\A i \in DOMAIN ents :
          last'.idx = i /\ last'.op \in MutationOps =>
             /\ ents'[i].metadata.state = ents[i].metadata.state
             /\ ents'[i].metadata.id = ents[i].metadata.id
             /\ ents'[i].metadata.type = ents[i].metadata.type
             /\ ents'[i].metadata.created_at = ents[i].metadata.created_at
             /\ ents'[i].hasSchema = ents[i].hasSchema
             /\ ents'[i].actions = ents[i].actions
             /\ ents'[i].strategy = ents[i].strategy
             /\ ents'[i].slots = ents[i].slots]_vars

\* a field of a COMMITTED entity has been deleted
C7_Witness ==
    /\ last.op = "delete"
    /\ last.result = "ok"
    /\ ents[last.idx].metadata.state = COMMITTED
    /\ ents[last.idx].metadata.version > 1

\* C8 (as claimed): a successful write through a synthesized accessor
\* increments version by 1 and clears the derived caches, as set() does.
C8_AccessorWriteIsMutation ==
    [][\A i \in DOMAIN ents :
          last'.idx = i /\ last'.op = "accessor_set" /\ last'.result = "ok" =>
             /\ ents'[i].metadata.version = ents[i].metadata.version + 1
             /\ ents'[i].cache = {}
             /\ ~ents'[i].schema_cache]_vars

\* C9 (as claimed): no operation on an entity changes its id or entityType.
C9_IdentityNeverChanges ==
    [][\A i \in DOMAIN ents :
          /\ ents'[i].metadata.id = ents[i].metadata.id
          /\ ents'[i].metadata.type = ents[i].metadata.type]_vars

\* C10 (as claimed): the id of e.copy() differs from the id of e.
C10_CopyHasNewId ==
    last.op = "copy" => ents[last.idx].metadata.id # ents[last.n].metadata.id

\* C11 (as claimed): e.copy() is at version 1 and in state DRAFT, whatever
\* the state and version of e.
C11_CopyStartsFresh ==
    last.op = "copy" =>
        /\ ents[last.idx].metadata.version = 1
        /\ ents[last.idx].metadata.state = DRAFT

\* what a caller reads of the field data, tags and metadata of an entity
Content(e) ==
    [ data     |-> e.data,
      tags     |-> e.metadata.tags.items,
      metadata |-> [k \in MetaKeys |-> e.metadata.metadata.map[k].val] ]

C12_EqualAtCopy ==
    last.op = "copy" => Content(ents[last.idx]) = Content(ents[last.n])

C12_Independent ==
    \A i \in DOMAIN ents :
        last'.idx = i /\ last'.op \in {"set", "add_tag", "set_meta", "mutate_nested"}
        => \A j \in DOMAIN ents \ {i} : Content(ents'[j]) = Content(ents[j])

\* C12 (as claimed): e.copy() has field data, tags and metadata equal to
\* those of e at copy time, and afterwards a write to the data, tags or
\* metadata (nested values included) of either never shows in the other.
C12_CopyIsIndependent == []C12_EqualAtCopy /\ [][C12_Independent]_vars

\* the data and the metadata fields of an entity that a round trip keeps
Persisted(e) ==
    [ content |-> Content(e),
      state   |-> e.metadata.state,
      version |-> e.metadata.version ]

\* the step loads the export of entity i into a new entity
IsReloadOf(i) ==
    /\ last'.op = "from_dict"
    /\ ents' = Append(ents, factory_from_dict(to_dict(ents[i]), ents[i].hasSchema,
                                              ents[i].strategy, nextId, clock, clock'))

\* C13: from_dict(to_dict(e)) is an entity whose data and whose metadata
\* state, version, tags and metadata equal those of e.
C13_RoundTrip ==
    [][\A i \in DOMAIN ents :
          IsReloadOf(i) => Persisted(ents'[Len(ents')]) = Persisted(ents[i])]_vars

\* the export of an ARCHIVED entity with a second field, a tag and a
\* metadata entry has been loaded into a new entity
C13_Witness ==
    /\ last.op = "from_dict"
    /\ \E i \in 1..(last.idx - 1) :
          /\ Persisted(ents[last.idx]) = Persisted(ents[i])
          /\ ents[i].metadata.state = ARCHIVED
          /\ ents[i].metadata.version > 2
          /\ ents[i].data["age"] = 1
          /\ ents[i].metadata.tags.items # <<>>
          /\ ents[i].metadata.metadata.map["k"] # NoNested

C14_EqById ==
    last.op = "eq" =>
        (last.result = "True" <=>
            /\ last.n \in DOMAIN ents
            /\ ents[last.idx].metadata.id = ents[last.n].metadata.id)

C14_HashStable ==
    \A i \in DOMAIN ents : Cardinality(hist[i].hashes) <= 1

C14_HashFromId ==
    \A i \in DOMAIN ents :
        last'.idx = i /\ last'.op = "hash" /\ hist[i].hashes = {}
        => last'.n = hash_of(ents[i].metadata.id)

\* C14 (as claimed): two facades are equal iff their ids are equal; hash(e)
\* is computed from the id, and every call of it in the life of the facade
\* returns the same value.
C14_EqualityAndHash ==
    [](C14_EqById /\ C14_HashStable) /\ [][C14_HashFromId]_vars

\* the same statement for a facade whose id property is the one facade.py
\* declares; the hash is stable in every case
IdentityByIdWithOwnProperty ==
    /\ []C14_HashStable
    /\ []("id" \notin xEntityClass.properties => C14_EqById)
    /\ [][("id" \notin xEntityClass.properties) => C14_HashFromId]_vars

\* the position of the first pair of a mapping whose set fails, 0 if none
FirstFailure(m) ==
    IF \E a \in DOMAIN m : m[a][1] = BadPath
    THEN CHOOSE a \in DOMAIN m :
            /\ m[a][1] = BadPath
            /\ \A b \in 1..(a - 1) : m[b][1] # BadPath
    ELSE 0

\* the step is update(m) on entity i
IsUpdateOf(i, m) ==
    /\ last'.op = "update"
    /\ last'.idx = i
    /\ last'.n = Len(m)
    /\ last'.result = update_(ents[i], m, clock).err
    /\ ents'[i] = update_(ents[i], m, clock).e

\* C15: update(mapping) applies its pairs one at a time in iteration order
\* and is not atomic: when the k-th set fails, the first k-1 pairs stay
\* applied and version has advanced by k-1, the k-th and later pairs are not
\* applied, and the error reaches the caller.
C15_UpdateNotAtomic ==
    [][\A i \in DOMAIN ents, m \in Mappings :
          IsUpdateOf(i, m) =>
             LET k == FirstFailure(m)
                 applied == IF k = 0 THEN Len(m) ELSE k - 1
             IN  /\ last'.result = IF k = 0 THEN "ok" ELSE "DataError"
                 /\ ents'[i].metadata.version = ents[i].metadata.version + applied
                 /\ \A a \in 1..applied : ents'[i].data[m[a][1]] = m[a][2]
                 /\ \A a \in (applied + 1)..Len(m) :
                       m[a][1] \in Paths =>
                          ents'[i].data[m[a][1]] = ents[i].data[m[a][1]]]_vars

\* an update whose second pair failed has left its first pair applied
C15_Witness ==
    /\ last.op = "update"
    /\ last.result = "DataError"
    /\ last.n = 2
    /\ ents[last.idx].data["age"] = 1
    /\ ents[last.idx].metadata.version = 2

WrapperOps == {"to_validated", "commit", "archive", "restore"}

\* the call of the step, on entity i, went as transition_to(target) goes
AsTransitionTo(i) ==
    LET r == transition_to(ents[i], last'.target, clock)
    IN  last'.result = r.err /\ ents'[i] = r.e

\* C16 (as claimed): in every lifecycle state each of to_validated, commit,
\* archive, restore succeeds exactly when transition_to of its target state
\* would, with the same effect on state and version.
C16_WrappersAreTransitions ==
    [][\A i \in DOMAIN ents :
          last'.idx = i /\ last'.op \in WrapperOps => AsTransitionTo(i)]_vars

\* to_validated, commit and archive go as transition_to of their target
\* state goes; restore goes as transition_to(DRAFT) goes when self.state
\* reads ARCHIVED, and in every other case it fails with StateError and
\* changes nothing: in VALIDATED, from where transition_to(DRAFT) is
\* accepted, and in every state when the state property is not the one
\* facade.py declares
RestoreOnlyWhenStateReadsArchived ==
    [][\A i \in DOMAIN ents :
          /\ last'.idx = i /\ last'.op \in WrapperOps \ {"restore"}
                => AsTransitionTo(i)
          /\ last'.idx = i /\ last'.op = "restore" =>
                LET reads == facade_property(xEntityClass, "state",
                                             ents[i].metadata.state, "None")
                IN  /\ last'.target = DRAFT
                    /\ reads = ARCHIVED => AsTransitionTo(i)
                    /\ reads # ARCHIVED =>
                          last'.result = "StateError" /\ ents'[i] = ents[i]]_vars

\* the targets _can_transition_to allows for the entity
AllowedTargets(e) == {t \in Targets : can_transition_to(e, t)}

\* the states the entity can be taken to by at most n accepted
\* _transition_to calls
RECURSIVE StatesWithin(_, _)
StatesWithin(e, n) ==
    IF n = 0 THEN {e.metadata.state}
    ELSE LET near == StatesWithin(e, n - 1)
         IN  near \cup
             { transition_to([e EXCEPT !.metadata.state = s], t, clock).e.metadata.state :
                 s \in near, t \in Targets }

\* C17: no lifecycle state is terminal: whatever state an entity has
\* reached, some transition is allowed and a sequence of accepted
\* transitions takes it to DRAFT again; from ARCHIVED only DRAFT is
\* allowed, from COMMITTED only ARCHIVED.
C17_NoTerminalState ==
    \A i \in DOMAIN ents :
        /\ AllowedTargets(ents[i]) # {}
        /\ DRAFT \in StatesWithin(ents[i], Cardinality(States))
        /\ ents[i].metadata.state = ARCHIVED => AllowedTargets(ents[i]) = {DRAFT}
        /\ ents[i].metadata.state = COMMITTED => AllowedTargets(ents[i]) = {ARCHIVED}

\* an entity that was COMMITTED, then ARCHIVED, is in DRAFT again
C17_Witness ==
    /\ last.op \in TransitionOps
    /\ last.result = "ok"
    /\ hist[last.idx].pure
    /\ Len(hist[last.idx].path) >= 3
    /\ hist[last.idx].path[Len(hist[last.idx].path) - 2] = COMMITTED
    /\ hist[last.idx].path[Len(hist[last.idx].path) - 1] = ARCHIVED
    /\ ents[last.idx].metadata.state = DRAFT

\* the step is a get(k) that comes right after a put(k, v)
IsGetAfterPut ==
    last.op = "put" /\ last'.op = "get" /\ last'.idx = last.idx

GetHitsValuePut ==
    /\ last'.n = last.n
    /\ entity_cache'.hit_count = entity_cache.hit_count + 1
    /\ entity_cache'.miss_count = entity_cache.miss_count

\* C18 (as claimed): in a cache of any max_size, a get(k) right after a
\* put(k, v) returns v and adds 1 to the hit counter and nothing to the
\* miss counter.
C18_PutThenGetHits == [][IsGetAfterPut => GetHitsValuePut]_vars

\* C18 (amended): so it is in a cache whose max_size is at least 1; in a
\* cache of max_size 0 the put keeps nothing, and the get returns None and
\* adds 1 to the miss counter.
C18_PutThenGetHitsIfRoom ==
    [][IsGetAfterPut =>
          IF entity_cache.max_size >= 1
          THEN GetHitsValuePut
          ELSE /\ last'.n = NoValue
               /\ entity_cache'.miss_count = entity_cache.miss_count + 1
               /\ entity_cache'.hit_count = entity_cache.hit_count]_vars

\* in a cache of max_size 1 that held another key, a key has been put and
\* then read
C18_Witness ==
    /\ last.op = "get"
    /\ last.result = "hit"
    /\ last.n \in CacheValues
    /\ entity_cache.max_size = 1
    /\ entity_cache.hit_count = 1
    /\ entity_cache.miss_count = 0
    /\ Len(touched) = 3
    /\ touched[1] # last.idx
    /\ touched[2] = last.idx
    /\ touched[3] = last.idx

\* C19: whatever put, get and clear calls have been made, the cache holds
\* no more entries than its max_size, which is 1024 unless configured.
C19_SizeWithinBound ==
    /\ CacheSize(entity_cache) <= entity_cache.max_size
    /\ NewCache(entity_cache_size).max_size = 1024

\* a put into a full cache of max_size 2 has left it with 2 entries
C19_Witness ==
    /\ last.op = "put"
    /\ entity_cache.max_size = 2
    /\ CacheSize(entity_cache) = 2
    /\ ~CacheHas(entity_cache, touched[1])
    /\ Cardinality({touched[a] : a \in DOMAIN touched}) = 3

\* the keys a cache holds
CacheKeysOf(c) == {c.entries[a].key : a \in DOMAIN c.entries}

\* the position in a log of touches of the last touch of a key
LastUse(log, key) ==
    CHOOSE a \in DOMAIN log :
        log[a] = key /\ \A b \in DOMAIN log : log[b] = key => b <= a

\* the least recently used of a set of keys, each touched at least once
LeastRecent(log, keys) ==
    CHOOSE k \in keys : \A k2 \in keys : LastUse(log, k) <= LastUse(log, k2)

C20_PutStep ==
    last'.op = "put" =>
        LET k == last'.idx
            before == CacheKeysOf(entity_cache)
            after == CacheKeysOf(entity_cache')
        IN  IF k \notin before /\ CacheSize(entity_cache) + 1 > entity_cache.max_size
            THEN after = (before \cup {k}) \ {LeastRecent(touched', before \cup {k})}
            ELSE after = before \cup {k}

\* the step is the third of three puts of distinct keys, with no read and
\* no clear, into a cache of max_size 2
C20_ThreeKeysBoundTwo ==
    ( /\ last'.op = "put"
      /\ entity_cache.max_size = 2
      /\ entity_cache.hit_count = 0
      /\ Len(touched) = 2
      /\ CacheKeysOf(entity_cache) = {touched[1], touched[2]}
      /\ touched[1] # touched[2]
      /\ last'.idx \notin {touched[1], touched[2]} )
    => CacheKeysOf(entity_cache') = {touched[2], last'.idx}

\* C20: a put of a new key into a full cache evicts exactly one entry, the
\* one whose key was least recently marked as used by a put or by a get
\* that hit; every other put evicts nothing; with max_size 2, three puts of
\* distinct keys and no read leave the second and the third key.
C20_EvictsLeastRecentlyUsed == [][C20_PutStep /\ C20_ThreeKeysBoundTwo]_vars

\* with max_size 2: a, b put, a read, c put: b has been evicted, a kept
C20_Witness ==
    /\ last.op = "put"
    /\ entity_cache.max_size = 2
    /\ entity_cache.hit_count = 1
    /\ Len(touched) = 4
    /\ touched[1] = touched[3]
    /\ Cardinality({touched[a] : a \in DOMAIN touched}) = 3
    /\ CacheKeysOf(entity_cache) = {touched[1], touched[4]}

\* the call of the step was execute_action on entity i
IsExecuteOn(i) == last'.op = "execute_action" /\ last'.idx = i

\* C21: execute_action with a name that is not in the action table of the
\* entity always fails with the action error "Action not registered",
\* invokes no action body and leaves the entity (state, version, data and
\* everything else) as it was.
C21_UnknownActionRefused ==
    [][\A i \in DOMAIN ents :
          IsExecuteOn(i) /\ last'.target \notin list_actions(ents[i]) =>
             /\ last'.result = "ActionError"
             /\ last'.reason = "Action not registered"
             /\ last'.n = 0
             /\ ents'[i] = ents[i]]_vars

\* an entity with registered actions has refused the name of an action
\* that is not among them
C21_Witness ==
    /\ last.op = "execute_action"
    /\ last.result = "ActionError"
    /\ last.target \in ActionNames \ list_actions(ents[last.idx])
    /\ list_actions(ents[last.idx]) # {}
    /\ ents[last.idx].metadata.version > 1

\* the action that the call of the step found under its name on entity i
Dispatched(i) == ents[i].actions[last'.target]

\* the call of the step was execute_action on entity i with a registered name
IsDispatchOn(i) == IsExecuteOn(i) /\ last'.target \in list_actions(ents[i])

\* C22: execute on an action whose allowed roles do not contain "*" fails
\* with AuthorizationError, its body not invoked, whenever the caller has no
\* role in common with them; a call is authorized exactly when the allowed
\* roles contain "*" or share a role with the caller's.
C22_UnauthorizedRefused ==
    [][\A i \in DOMAIN ents :
          IsDispatchOn(i) =>
             LET allowed == Dispatched(i).roles
                 passes  == AnyRole \in allowed \/ allowed \cap args'.roles # {}
             IN  /\ ~passes => last'.result = "AuthorizationError" /\ last'.n = 0
                 /\ passes => last'.result # "AuthorizationError"]_vars

\* C23: execute runs its steps in the order lookup, authorization,
\* validation of the supplied parameter against its input constraint, body:
\* the body is invoked at most once per call and only when the three
\* earlier steps have succeeded, the first step that fails raises its error
\* before any later step runs, and the outcome of the body is what the call
\* returns.
C23_StepsInOrder ==
    [][\A i \in DOMAIN ents :
          IsExecuteOn(i) =>
             LET found   == last'.target \in list_actions(ents[i])
                 action  == Dispatched(i)
                 passes  == AnyRole \in action.roles
                            \/ action.roles \cap args'.roles # {}
                 valid   == ~action.constrained \/ args'.param # 0
             IN  /\ last'.n \in {0, 1}
                 /\ ~found => last'.result = "ActionError" /\ last'.n = 0
                 /\ found /\ ~passes =>
                       last'.result = "AuthorizationError" /\ last'.n = 0
                 /\ found /\ passes /\ ~valid =>
                       last'.result = "ValidationError" /\ last'.n = 0
                 /\ found /\ passes /\ valid =>
                       /\ last'.n = 1
                       /\ last'.result =
                             action_body(ents[i], last'.target, clock).err]_vars

\* C24: every successful execution of a COMMAND action increments the
\* version of the entity as a side effect of the dispatch, also when the
\* body makes no set, delete or update call.
C24_CommandBumpsVersion ==
    [][\A i \in DOMAIN ents :
          /\ IsDispatchOn(i)
          /\ Dispatched(i).profile = "COMMAND"
          /\ last'.result = "ok"
          => ents'[i].metadata.version > ents[i].metadata.version]_vars

\* C25: when the body of an action raises after it has applied field
\* mutations, the dispatcher does not roll back: the mutations and their
\* version increments remain and the exception reaches the caller.
C25_NoRollback ==
    [][\A i \in DOMAIN ents :
          IsDispatchOn(i) /\ last'.n = 1 /\ last'.target = "break" =>
             /\ last'.result = "RuntimeError"
             /\ ents'[i].data["age"] = 1
             /\ ents'[i].metadata.version = ents[i].metadata.version + 1
             /\ ents'[i] = set_(ents[i], "age", 1, clock).e]_vars

\* a body has raised after its one write, the only write the entity ever saw
C25_Witness ==
    /\ last.op = "execute_action"
    /\ last.target = "break"
    /\ last.result = "RuntimeError"
    /\ ents[last.idx].data["age"] = 1
    /\ ents[last.idx].metadata.version = 2

\* the class body of the step declares two actions under one name: twice
\* the same member, or two members with the same api_name
DeclaresDuplicate(decls) ==
    \E a, b \in DOMAIN decls :
       /\ a # b
       /\ decls[a][1] = decls[b][1] \/ decls[a][2].api_name = decls[b][2].api_name

\* C26: a class body that declares two actions with the same name is
\* rejected at class synthesis with a DefinitionError, so that the actions
\* of a class never hold two actions under one name and a later
\* declaration never silently takes the place of an earlier one.
C26_DuplicatesRejected ==
    [][last'.op = "class" =>
          /\ DeclaresDuplicate(args'.body.decls) => last'.result = "DefinitionError"
          /\ \A x, y \in klass'.actions :
                x.action.api_name = y.action.api_name => x = y
          /\ \A a \in DOMAIN args'.body.decls :
                \E x \in klass'.actions : x.action = args'.body.decls[a][2]]_vars

\* the fields of FieldSeq whose name is, whatever its case, one of id, name,
\* username, email, status, active
FrequentFields == {"username", "Email", "STATUS"}

\* a class synthesized by BalancedModeMetaclass gives a field a DIRECT
\* accessor exactly when its name is, case-insensitively, one of id, name,
\* username, email, status, active; every other field is DELEGATED
BalancedMetaclassByName ==
    [][last'.op = "class" /\ last'.target = "BalancedModeMetaclass" =>
          /\ klass'.mode = BALANCED
          /\ \A f \in klass'.properties \cap {FieldSeq[k] : k \in DOMAIN FieldSeq} :
                /\ f \in FrequentFields => klass'.strategy[f] = DIRECT
                /\ f \notin FrequentFields => klass'.strategy[f] = DELEGATED]_vars

\* C29 (as claimed): a class synthesized under the balanced policy gives a
\* field a DIRECT accessor exactly when its name is, case-insensitively,
\* one of id, name, username, email, status, active; every other field is
\* DELEGATED.
C29_BalancedByName ==
    [][last'.op = "class" /\ config_manager.performance_mode = BALANCED =>
          /\ klass'.mode = BALANCED
          /\ \A f \in klass'.properties :
                /\ f \in FrequentFields => klass'.strategy[f] = DIRECT
                /\ f \notin FrequentFields => klass'.strategy[f] = DELEGATED]_vars

\* the api names of the actions that the class under study declares
DeclaredNames == { x.action.api_name : x \in klass.actions }

\* C27: every action declared with the action marker is discovered once at
\* class synthesis and is in the action table of every instance from its
\* construction on: list_actions() of a new instance holds its name, and
\* execute_action(name) on an instance (the entities made by new_instance,
\* all but the first) dispatches without any registration on the instance.
C27_DeclaredActionsOnInstances ==
    [][/\ last'.op = "new_instance" =>
             DeclaredNames \subseteq list_actions(ents'[last'.idx])
       /\ \A i \in DOMAIN ents :
             IsExecuteOn(i) /\ i > 1 /\ last'.target \in DeclaredNames =>
                last'.result # "ActionError"]_vars

\* C28: with validation enabled, a write through the accessor of a field,
\* DIRECT or DELEGATED, of a value that the schema of the field rejects
\* fails with a validation error and stores nothing: the accessor reads
\* the previous value afterwards.
C28_RejectedWriteStoresNothing ==
    [][\A i \in DOMAIN ents :
          /\ last'.idx = i
          /\ last'.op = "accessor_set"
          /\ enable_validation
          /\ ~schema_validate(args'.param)
          => /\ last'.result # "ok"
             /\ ents'[i].slots[last'.target] = ents[i].slots[last'.target]
             /\ ents'[i].data[last'.target] = ents[i].data[last'.target]]_vars

\* C30: a class synthesized under the AUTO policy gives its fields
\* DELEGATED accessors exactly when, at that time, it has more than
\* auto_property_threshold (10) fields or the creations counted so far
\* exceed auto_instance_threshold (1000); otherwise DIRECT, also with
\* exactly 10 fields and a count of exactly 1000.
C30_AutoByThresholds ==
    [][last'.op = "class" /\ config_manager.performance_mode = AUTO =>
          LET over == \/ Cardinality(klass'.properties) > auto_property_threshold
                      \/ config_manager'.instance_count > auto_instance_threshold
          IN  \A f \in klass'.properties :
                 klass'.strategy[f] = IF over THEN DELEGATED ELSE DIRECT]_vars

\* C36: in every reachable state of every entity, right after construction
\* and after a snapshot load included, updated_at >= created_at.
C36_UpdatedNotBeforeCreated ==
    \A i \in DOMAIN ents :
       ents[i].metadata.updated_at >= ents[i].metadata.created_at

\* C37: in every reachable state of every entity, entities created or
\* overwritten by a snapshot load included, the lifecycle state is one of
\* DRAFT, VALIDATED, COMMITTED, ARCHIVED and version is at least 1: a
\* snapshot never leaves an entity in a state that allows no transition.
C37_StateAndVersionInRange ==
    \A i \in DOMAIN ents :
       /\ ents[i].metadata.state \in States
       /\ ents[i].metadata.version >= 1
       /\ \E target \in States : can_transition_to(ents[i], target)

\* the strategy of the class and the storage of its instances stay as they
\* are over a step
StrategyKept ==
    /\ klass' = klass
    /\ \A i \in DOMAIN ents :
          last'.op \in {"set_performance_mode", "new_instance"} =>
             /\ ents'[i].strategy = ents[i].strategy
             /\ ents'[i].slots = ents[i].slots
             /\ ents'[i].data = ents[i].data

\* once the class is synthesized, no step changes its strategy or the
\* storage of its instances
StrategyStableOnceResolved == [][klass # NoClass => StrategyKept]_vars

\* C31: once the accessor strategy of a class is resolved it never changes:
\* later set_performance_mode calls and later instance creations leave the
\* strategy of the class and the storage of its existing instances as they
\* were, and creating an instance only advances the global instance counter
\* (by one).
C31_StrategyFixedOnceResolved ==
    [][klass # NoClass =>
          /\ StrategyKept
          /\ last'.op = "new_instance" =>
                /\ config_manager'.instance_count = config_manager.instance_count + 1
                /\ config_manager'.performance_mode = config_manager.performance_mode]_vars

\* C32: after a successful set, delete or update and after an accepted
\* state transition on an entity, the derived caches of that entity (the
\* cache and the schema snapshot) are cleared, and only those: the derived
\* caches of the other entities and the shared entity cache stay as they
\* were.
C32_MutationClearsOwnDerived ==
    [][\A i \in DOMAIN ents :
          /\ last'.idx = i
          /\ last'.op \in MutationOps \cup TransitionOps
          /\ last'.result = "ok"
          => /\ ents'[i].cache = {}
             /\ ~ents'[i].schema_cache
             /\ \A j \in DOMAIN ents \ {i} :
                   /\ ents'[j].cache = ents[j].cache
                   /\ ents'[j].schema_cache = ents[j].schema_cache
             /\ entity_cache' = entity_cache]_vars

\* C33: a cached schema snapshot is invalidated only by clear_caches(): no
\* field mutation and no state transition on any entity clears it, and a
\* clear_caches() call does clear it.
C33_SchemaCacheOnlyClearedExplicitly ==
    [][\A i \in DOMAIN ents :
          /\ ents[i].schema_cache /\ last'.op # "clear_caches"
                => ents'[i].schema_cache
          /\ last'.op = "clear_caches" => ~ents'[i].schema_cache]_vars

\* C38: DIRECT and DELEGATED are observationally equivalent: after a write
\* through the accessor of a field, get(field) and the data of the
\* snapshot return the written value, and after a set(field, v) that
\* changes the field the accessor returns v, under both strategies.
C38_StrategiesEquivalent ==
    [][\A i \in DOMAIN ents :
          last'.idx = i /\ last'.result = "ok" =>
             /\ last'.op = "accessor_set" =>
                   /\ get_(ents'[i], last'.target) = args'.param
                   /\ xData(to_dict(ents'[i]).data)[last'.target] = args'.param
             /\ last'.op = "set" =>
                   \A f \in Paths :
                      ents'[i].data[f] # ents[i].data[f] =>
                         accessor_get(ents'[i], f) = ents'[i].data[f]]_vars

\* a DELEGATED accessor reads what was written: after a successful write
\* through it the xData of the object holds the value and the accessor
\* returns it
DelegatedReadsWhatWasWritten ==
    [][\A o \in DOMAIN objs :
          /\ last'.op = "object_set" /\ last'.idx = o /\ last'.result = "ok"
          /\ objs[o].strategy[last'.target] = DELEGATED
          => /\ get_(objs'[o], last'.target) = args'.param
             /\ accessor_get(objs'[o], last'.target) = args'.param]_vars

\* C39: every get call adds exactly one to hits + misses and no other
\* cache operation changes hits or misses (clear empties the entries and
\* keeps the counters), so that hits + misses is the number of get calls
\* and neither counter decreases; a get of an absent key returns None and
\* counts one miss; hit_rate is hits / (hits + misses), or 0.0 when no get
\* was made.
C39_CountersCountGets ==
    [][LET before == stats(entity_cache)
           after  == stats(entity_cache')
       IN  /\ last'.op = "get" =>
                 /\ after.hits + after.misses = before.hits + before.misses + 1
                 /\ after.hits >= before.hits
                 /\ after.misses >= before.misses
           /\ last'.op = "get" /\ ~CacheHas(entity_cache, last'.idx) =>
                 /\ last'.n = NoValue
                 /\ after.misses = before.misses + 1
                 /\ after.hits = before.hits
           /\ last'.op # "get" =>
                 /\ after.hits = before.hits
                 /\ after.misses = before.misses
           /\ last'.op = "clear" => after.size = 0
           /\ after.hit_rate = IF after.hits + after.misses = 0 THEN <<0, 1>>
                               ELSE <<after.hits, after.hits + after.misses>>]_vars

\* a get misses on a cache that was cleared after a put and a hit: the
\* counters kept the hit
C39_Witness ==
    /\ last.op = "get"
    /\ last.result = "miss"
    /\ last.n = NoValue
    /\ entity_cache.entries = <<>>
    /\ Len(touched) >= 2
    /\ stats(entity_cache).hits >= 1
    /\ stats(entity_cache).hit_rate[2] = entity_cache.hit_count + entity_cache.miss_count

Quiescent == \A t \in Threads : threads[t].pc = "idle"

\* C34: the mutations of one entity are serialized: whenever no call is
\* under way, the k set calls that have completed have left version
\* exactly k above the version at construction, and the entity is what some
\* sequential order of those calls gives (updated_at aside).
C34_MutationsSerialized ==
    Quiescent =>
       LET done == {t \in Threads : threads[t].calls > 0}
           e0   == NewEntity(1, "entity", [p \in Paths |-> Absent], FALSE,
                             DirectFields, 0, 0)
       IN  /\ ents[1].metadata.version = e0.metadata.version + completed.set
           /\ [ents[1] EXCEPT !.metadata.updated_at = 0]
                 \in SequentialOutcomes(e0, done, 0)

\* C35: concurrent get and put calls on one cache, with clear_caches()
\* calls among them, behave as a sequential
\* interleaving of whole operations: whenever the lock is free the cache is
\* the one that the completed calls give when applied whole in their order
\* of completion, so its size is within max_size and hits + misses is the
\* number of completed gets; and a completed put has left its key present
\* with the value written.
C35_CacheCallsLinearizable ==
    lock = 0 =>
       /\ entity_cache = serial
       /\ Len(entity_cache.entries) <= entity_cache.max_size
       /\ entity_cache.hit_count + entity_cache.miss_count = completed.get
       /\ last.op = "put" =>
             /\ CacheHas(entity_cache, last.idx)
             /\ CacheValue(entity_cache, last.idx) = last.n
       /\ last.op # "KeyError"

\* the threads have completed their calls, each at least one, among them
\* two puts and a get that hit, and the cache is full
C35_Witness ==
    /\ lock = 0
    /\ \A t \in Threads : threads[t].calls >= 1
    /\ CallsStarted = MaxCalls
    /\ completed.get >= 1
    /\ completed.put >= 2
    /\ entity_cache.hit_count >= 1
    /\ Len(entity_cache.entries) = entity_cache.max_size

\* C40: get_entity_cache() returns the same object on every call, also
\* when the first calls are concurrent: a second cache is never
\* constructed; clear_caches() empties that object without replacing it.
C40_OneSharedCache ==
    [][/\ created' <= 1
       /\ Cardinality(UNION {threads'[t].seen : t \in Threads}) <= 1
       /\ last'.op = "clear_caches" /\ completed' # completed =>
             /\ entity_cache'.entries = <<>>
             /\ entity_cache_instance' = entity_cache_instance]_vars

====
